-------------------------- MODULE ToolRoundProofs --------------------------
(***************************************************************************)
(* Theorems about ToolRound for any calls, rounds, tools and workspace.    *)
(* What happens to a call is told by three things that move apart, its     *)
(* goroutine's phase, its tool's work and its answer; the invariant says   *)
(* how far apart, and ties to them the console's prompts, the renames and  *)
(* what a sub-agent has spent.                                             *)
(***************************************************************************)
EXTENDS ToolRound, LineDiffProofs, FiniteSetTheorems

\* The empty line is named, as no backend knows a given string to be one.
Strings == STRING \cup {""}
Texts == Seq(Strings)

\* What the assumptions call a text is one.
LEMMA StringsAreTexts == Seq(STRING) \subseteq Texts
<1>1. STRING \subseteq Strings
  BY DEF Strings
<1>2. ASSUME NEW S, NEW T, S \subseteq T, NEW s \in Seq(S) PROVE s \in Seq(T)
  <2>1. s \in [1..Len(s) -> T]
    BY <1>2
  <2>2. QED
    BY <2>1
<1>3. QED
  BY <1>1, <1>2 DEF Texts

States == {"start", "temp", "looked", "walking", "child", "chat", "tools"} \cup Outcomes
Writers == {"write_file", "edit_file"}

\* The phase, the work and the answer of a call, and whose turn it is.
RoundOK ==
  /\ phase \in [Calls -> {"later", "approval", "asking", "running", "over"}]
  /\ work \in [Calls -> States]
  /\ answer \in [Calls -> Outcomes \cup {None, "denied", "abandoned"}]
  /\ stopped \subseteq Calls /\ cancelled \in BOOLEAN
  /\ todo \in Seq(SUBSET Calls) /\ round \subseteq Calls
  /\ \A i, j \in DOMAIN todo : i # j => todo[i] \cap todo[j] = {}
  /\ \A i \in DOMAIN todo : \A c \in todo[i] : phase[c] = "later"
  /\ \A c \in Calls :
       /\ phase[c] \in {"approval", "asking", "running"} => c \in round
       /\ phase[c] \in {"later", "approval", "asking"} => work[c] = "start"
       /\ phase[c] = "over" <=> answer[c] # None
       /\ answer[c] \in Outcomes => work[c] = answer[c]
       /\ answer[c] = "denied" => work[c] = "start"
       /\ answer[c] = "abandoned" => c \in stopped

\* Unless two prompts crossed, the one that waits is the last one written.
ConsoleOK ==
  /\ prompts \in Seq(Calls) /\ lines \in Nat /\ read \in Nat
  /\ read <= lines /\ lines <= Len(prompts)
  /\ consent \in [Calls -> Calls \cup {None}] /\ crossed \in BOOLEAN
  /\ ~crossed =>
       /\ \A c \in Calls : phase[c] = "asking" =>
            Len(prompts) = read + 1 /\ prompts[read + 1] = c
       /\ (\A c \in Calls : phase[c] # "asking") => Len(prompts) = read

LetIn(c) == phase[c] = "running" \/ answer[c] = "abandoned" \/ work[c] # "start"

ConsentOK ==
  \A c \in Calls : Tool[c] \in Gated /\ LetIn(c) =>
    consent[c] \in Wanted /\ (crossed \/ consent[c] = c)

\* A tool is only where its own steps take it.
KindOK ==
  \A c \in Calls : /\ work[c] \in {"temp", "looked"} => Tool[c] \in Writers
                   /\ work[c] = "walking" => Tool[c] \in Walks
                   /\ work[c] = "child" => Tool[c] = "run_command"
                   /\ work[c] \in {"chat", "tools"} => Tool[c] = "sub_agent"

FilesOK ==
  /\ files \in [Roots \X FileNames -> Texts \cup {Missing}] /\ root \in Roots
  /\ DOMAIN seen = Calls /\ DOMAIN at = Calls /\ DOMAIN tmp = Calls
  /\ \A c \in Calls :
       /\ work[c] \in {"temp", "looked"} => /\ tmp[c] \in Texts /\ at[c] \in Roots \X FileNames
                                            /\ tmp[c] = Result(c, seen[c])
                                            /\ Tool[c] = "edit_file" => seen[c] # Missing
       /\ work[c] \notin {"temp", "looked"} => tmp[c] = None

\* A call renames at most once, as its last step.
RenamesOK ==
  /\ done \in Seq([call : Calls, was : Texts \cup {Missing}, now : Texts])
  /\ \A i \in DOMAIN done :
       LET c == done[i].call
       IN /\ done[i].now = Result(c, seen[c]) /\ Tool[c] \in Writers
          /\ Tool[c] = "edit_file" => seen[c] # Missing
  /\ \A c \in Calls : /\ work[c] # "ok" => RenamedBy(c) = {}
                      /\ work[c] = "ok" /\ Tool[c] \in Writers => \E i \in DOMAIN done : RenamedBy(c) = {i}

\* A preview is of a text that was there, and while its call is out it is of the file that
\* the call's path still means.
ShownOK ==
  /\ DOMAIN shown = Calls
  /\ \A c \in Calls :
       /\ phase[c] \in {"later", "approval"} => shown[c] = None
       /\ shown[c] # None =>
            /\ \E old \in Texts \cup {Missing} :
                 /\ Result(c, old) \in Texts
                 /\ Tool[c] = "edit_file" => old # Missing
                 /\ shown[c].diff = LineDiff(TextOf(old), Result(c, old))
            /\ answer[c] = None => shown[c].file = Resolve(Input[c].path)
            /\ \/ work[c] = "temp" /\ ~Stopped(c)
               \/ work[c] = "looked"
               \/ work[c] = "ok" /\ Tool[c] \in Writers
               => at[c] = shown[c].file

\* A sub-agent asks for another reply only when it has spent less than its budget.
ChildrenOK ==
  /\ child \in [Calls -> [turns : Nat, tokens : Nat, final : BOOLEAN]] /\ spent \in Nat
  /\ \A c \in Calls :
       /\ work[c] = "ok" /\ Tool[c] = "sub_agent" => child[c].final
       /\ child[c].turns <= ChildTurns
       /\ work[c] = "start" => child[c].turns = 0 /\ child[c].tokens = 0
       /\ work[c] = "chat" => child[c].turns < ChildTurns
       /\ ParentBudget > 0 =>
            /\ child[c].tokens < Left + LargestReply
            /\ work[c] \in {"start", "chat"} => child[c].tokens < Left

IInv == /\ RoundOK /\ ConsoleOK /\ ConsentOK /\ KindOK
        /\ FilesOK /\ RenamesOK /\ ShownOK /\ ChildrenOK

(* Of a walk: what it has found is told beside IInv, which it rests on. *)

Hits(c, file) == {k \in DOMAIN files[file] : files[file][k] = Input[c].old}
Got(c, n) == {found[c][k][2] : k \in {k \in DOMAIN found[c] : found[c][k][1] = n}}
Undisturbed(file) == \A i \in DOMAIN done : at[done[i].call] # file

\* A file the walk has passed was read as it is, and its matches were kept up to the cap.
Passed(c, n) ==
  LET file == <<at[c][1], n>> IN
  n < at[c][2] /\ Undisturbed(file) /\ files[file] # Missing =>
    /\ Got(c, n) \subseteq Hits(c, file) /\ (n \in Denied => Got(c, n) = {})
    /\ n \notin Denied => Got(c, n) = Hits(c, file) \/ Len(found[c]) = MatchCap

WalkOK(c) ==
  /\ at[c] \in Roots \X Nat /\ at[c][2] \in 1..Cardinality(FileNames) + 1
  /\ found[c] \in Seq(FileNames \X Nat) /\ Len(found[c]) <= MatchCap
  /\ work[c] = "walking" => Len(found[c]) < MatchCap /\ at[c][2] \in FileNames
  /\ work[c] = "ok" => Len(found[c]) = MatchCap \/ at[c][2] = Cardinality(FileNames) + 1
  /\ \A k \in DOMAIN found[c] : found[c][k][1] < at[c][2]
  /\ \A n \in FileNames :
       Undisturbed(<<at[c][1], n>>) => (n \in seen[c] <=> files[<<at[c][1], n>>] # Missing)
  /\ \A n \in FileNames : Passed(c, n)

WalksOK ==
  /\ DOMAIN found = Calls
  /\ \A c \in Calls : Tool[c] = "search_files" =>
       /\ work[c] = "start" => found[c] = <<>>
       /\ work[c] \in {"walking", "ok"} => WalkOK(c)
(* Of lost edits: also told beside IInv. *)

Together(cs) == \A c, d \in cs : SameRound(c, d)
RoundsOK == Together(round) /\ \A i \in DOMAIN todo : Together(todo[i])

Between(c) == Tool[c] = "edit_file" /\ work[c] \in {"temp", "looked"}

\* The text that an edit is about to write back over was replaced since it was read.
LosesOK ==
  \A c \in Calls : Between(c) /\ files[at[c]] # seen[c] =>
    \E j \in DOMAIN done : at[done[j].call] = at[c] /\ Overlap(done[j].call, c)

OverlapsOK == RoundsOK /\ LosesOK /\ OnlyOverlapsLose
-----------------------------------------------------------------------------
(* Facts that the steps share. *)

LEMMA Assumptions ==
  /\ None \notin Calls \cup {"ok", "error", "denied", "abandoned"}
  /\ Wanted \subseteq Calls
  /\ \A s \in Scenarios : /\ s \in Seq(SUBSET Calls)
                          /\ \A i, j \in DOMAIN s : i # j => s[i] \cap s[j] = {}
BY RoundAssumption DEF RoundAssumption

\* One step of a tool: where its call was, and that nothing else of the round moves.
LEMMA WorksFrame ==
  ASSUME IInv, NEW c \in Calls, NEW next, Works(c, next)
  PROVE  /\ UNCHANGED <<todo, round, phase, answer, stopped, cancelled>>
         /\ UNCHANGED <<prompts, lines, read, consent, crossed>>
         /\ work' = [work EXCEPT ![c] = next] /\ work'[c] = next
         /\ \A d \in Calls : d # c => work'[d] = work[d]
         /\ phase[c] = "running" \/ answer[c] = "abandoned"
         /\ work[c] \notin Outcomes /\ LetIn(c)
BY DEF Works, AtWork, plan, contexts, console, IInv, RoundOK, LetIn

LEMMA WorksKeeps ==
  ASSUME IInv, NEW c \in Calls, NEW next \in States, Works(c, next)
  PROVE  RoundOK' /\ ConsoleOK' /\ ConsentOK'
<1>1. /\ UNCHANGED <<todo, round, phase, answer, stopped, cancelled>>
      /\ UNCHANGED <<prompts, lines, read, consent, crossed>>
      /\ work' = [work EXCEPT ![c] = next] /\ work'[c] = next
      /\ \A d \in Calls : d # c => work'[d] = work[d]
      /\ phase[c] = "running" \/ answer[c] = "abandoned"
      /\ work[c] \notin Outcomes /\ LetIn(c)
  BY WorksFrame
<1>2. RoundOK'
  <2>1. work' \in [Calls -> States]
    BY <1>1 DEF IInv, RoundOK
  <2>2. ASSUME NEW d \in Calls
        PROVE  /\ phase'[d] \in {"later", "approval", "asking"} => work'[d] = "start"
               /\ answer'[d] \in Outcomes => work'[d] = answer'[d]
               /\ answer'[d] = "denied" => work'[d] = "start"
    <3>1. CASE d = c
      <4>1. phase[c] \in {"running", "over"} /\ answer[c] \notin Outcomes /\ answer[c] # "denied"
        BY <1>1, Assumptions DEF IInv, RoundOK, Outcomes
      <4>2. QED
        BY <1>1, <3>1, <4>1
    <3>2. CASE d # c
      BY <1>1, <3>2 DEF IInv, RoundOK
    <3>3. QED
      BY <3>1, <3>2
  <2>3. QED
    BY <1>1, <2>1, <2>2 DEF IInv, RoundOK
<1>3. ConsoleOK'
  BY <1>1 DEF IInv, ConsoleOK
<1>4. ConsentOK'
  <2>1. \A d \in Calls : LetIn(d)' => LetIn(d)
    BY <1>1 DEF LetIn
  <2>2. QED
    BY <1>1, <2>1 DEF IInv, ConsentOK, LetIn
<1>5. QED
  BY <1>2, <1>3, <1>4

LEMMA RenameIsOfAWriter ==
  ASSUME IInv, NEW i \in DOMAIN done
  PROVE  /\ done[i] \in [call : Calls, was : Texts \cup {Missing}, now : Texts]
         /\ done[i].call \in Calls /\ Tool[done[i].call] \in Writers
<1> DEFINE Renames == [call : Calls, was : Texts \cup {Missing}, now : Texts]
<1>1. done \in Seq(Renames) /\ Tool[done[i].call] \in Writers
  BY DEF IInv, RenamesOK
<1>2. \A r \in Renames : r.call \in Calls
  OBVIOUS
<1> HIDE DEF Renames
<1>3. i \in 1..Len(done) /\ Len(done) \in Nat
  BY <1>1
<1>4. done[i] \in Renames
  BY <1>1, <1>3, ElementOfSeq
<1>5. QED
  BY <1>1, <1>2, <1>4 DEF Renames

\* The step of a tool that keeps a temporary file neither before nor after, and whose
\* outcome is no rename's.
LEMMA OtherToolKeepsFiles ==
  ASSUME IInv, NEW c \in Calls, NEW next \in States, Works(c, next),
         work[c] \notin {"temp", "looked"}, next \notin {"temp", "looked"},
         next = "ok" => Tool[c] \notin Writers,
         UNCHANGED <<files, root, tmp, shown, done>>,
         DOMAIN seen' = Calls, DOMAIN at' = Calls,
         \A d \in Calls : d # c \/ Tool[c] \in Writers => seen'[d] = seen[d] /\ at'[d] = at[d]
  PROVE  FilesOK' /\ RenamesOK' /\ ShownOK'
<1>1. /\ UNCHANGED <<phase, answer, stopped, cancelled>>
      /\ work'[c] = next /\ work[c] \notin Outcomes
      /\ \A d \in Calls : d # c => work'[d] = work[d]
  BY WorksFrame
<1>2. FilesOK'
  <2>1. ASSUME NEW d \in Calls
        PROVE  /\ work'[d] \in {"temp", "looked"} =>
                    /\ tmp'[d] \in Texts /\ at'[d] \in Roots \X FileNames
                    /\ tmp'[d] = Result(d, seen'[d])
                    /\ Tool[d] = "edit_file" => seen'[d] # Missing
               /\ work'[d] \notin {"temp", "looked"} => tmp'[d] = None
    <3>1. CASE d = c
      BY <1>1, <3>1 DEF IInv, FilesOK
    <3>2. CASE d # c
      BY <1>1, <3>2 DEF IInv, FilesOK
    <3>3. QED
      BY <3>1, <3>2
  <2>2. QED
    BY <2>1 DEF IInv, FilesOK, Result
<1>3. RenamesOK'
  <2>1. \A d \in Calls : RenamedBy(d)' = RenamedBy(d)
    BY DEF RenamedBy
  <2>2. ASSUME NEW i \in DOMAIN done
        PROVE  seen'[done[i].call] = seen[done[i].call]
    BY RenameIsOfAWriter
  <2>3. ASSUME NEW d \in Calls
        PROVE  /\ work'[d] # "ok" => RenamedBy(d) = {}
               /\ work'[d] = "ok" /\ Tool[d] \in Writers => \E i \in DOMAIN done : RenamedBy(d) = {i}
    <3>1. CASE d = c
      BY <1>1, <3>1 DEF IInv, RenamesOK, Outcomes
    <3>2. CASE d # c
      BY <1>1, <3>2 DEF IInv, RenamesOK
    <3>3. QED
      BY <3>1, <3>2
  <2>4. QED
    BY <2>1, <2>2, <2>3 DEF IInv, RenamesOK, RenamedBy, Result
<1>4. ShownOK'
  <2>1. ASSUME NEW d \in Calls, shown[d] # None,
               \/ work'[d] = "temp" /\ ~Stopped(d)'
               \/ work'[d] = "looked"
               \/ work'[d] = "ok" /\ Tool[d] \in Writers
        PROVE  at'[d] = shown[d].file
    <3>1. d # c
      BY <1>1, <2>1
    <3>2. QED
      BY <1>1, <2>1, <3>1 DEF IInv, ShownOK, Stopped
  <2>2. \A d \in Calls : shown[d] # None /\ answer[d] = None => shown[d].file = Resolve(Input[d].path)'
    BY DEF IInv, ShownOK, Resolve
  <2>3. QED
    BY <1>1, <2>1, <2>2 DEF IInv, ShownOK, Result, TextOf
<1>5. QED
  BY <1>2, <1>3, <1>4

\* The step of a tool that is not a sub-agent going on.
LEMMA OtherToolKeepsChildren ==
  ASSUME IInv, NEW c \in Calls, NEW next \in States, Works(c, next),
         next \notin {"start", "chat"}, next = "ok" => Tool[c] # "sub_agent",
         UNCHANGED childVars
  PROVE  ChildrenOK'
<1>1. work'[c] = next /\ (\A d \in Calls : d # c => work'[d] = work[d])
  BY WorksFrame
<1>2. UNCHANGED <<child, spent>>
  BY DEF childVars
<1>3. Left' = Left
  BY <1>2 DEF Left
<1>4. QED
  BY <1>1, <1>2, <1>3 DEF IInv, ChildrenOK

\* A new state for one call's tool keeps every tool where its kind belongs.
LEMMA KindKeeps ==
  ASSUME IInv, NEW c \in Calls, NEW next \in States, Works(c, next),
         next \in {"temp", "looked"} => Tool[c] \in Writers,
         next = "walking" => Tool[c] \in Walks, next = "child" => Tool[c] = "run_command",
         next \in {"chat", "tools"} => Tool[c] = "sub_agent"
  PROVE  KindOK'
<1>1. work'[c] = next /\ (\A d \in Calls : d # c => work'[d] = work[d])
  BY WorksFrame
<1>2. QED
  BY <1>1 DEF IInv, KindOK
-----------------------------------------------------------------------------
(* The file tools. *)

LEMMA FailsStep ==
  ASSUME IInv, NEW c \in Calls, work[c] = "start", Fails(c), UNCHANGED childVars
  PROVE  IInv'
<1>1. /\ Works(c, "error") /\ UNCHANGED <<files, root, tmp, shown, done, seen, at>>
      /\ "error" \in States
  BY DEF Fails, perCall, States, Outcomes
<1>2. RoundOK' /\ ConsoleOK' /\ ConsentOK'
  BY <1>1, WorksKeeps
<1>3. KindOK'
  BY <1>1, KindKeeps
<1>4. FilesOK' /\ RenamesOK' /\ ShownOK'
  BY <1>1, OtherToolKeepsFiles DEF IInv, FilesOK
<1>5. ChildrenOK'
  BY <1>1, OtherToolKeepsChildren
<1>6. QED
  BY <1>2, <1>3, <1>4, <1>5 DEF IInv

\* read_file and the walks, which change nothing but what they have found.
LEMMA LookingStep ==
  ASSUME IInv, NEW c \in Calls, ReadFile(c) \/ Walk(c) \/ Visit(c), UNCHANGED childVars
  PROVE  IInv'
<1>1. /\ DOMAIN seen = Calls /\ DOMAIN at = Calls
      /\ work[c] = "walking" => Tool[c] \in Walks
      /\ Tool[c] \in Walks \cup {"read_file"} => Tool[c] \notin Writers \cup {"sub_agent"}
  BY DEF IInv, FilesOK, KindOK, Walks, Writers
<1>2. SUFFICES
        ASSUME NEW next \in {"ok", "walking"}, Works(c, next), work[c] \in {"start", "walking"},
               Tool[c] \in Walks \cup {"read_file"}, next = "walking" => Tool[c] \in Walks,
               UNCHANGED <<files, root, tmp, shown, done>>,
               DOMAIN seen' = Calls, DOMAIN at' = Calls,
               \A d \in Calls : d # c => seen'[d] = seen[d] /\ at'[d] = at[d]
        PROVE  IInv'
  <2>1. CASE ReadFile(c)
    <3>1. CASE Fails(c)
      BY <2>1, <3>1, FailsStep DEF ReadFile
    <3>2. CASE /\ Works(c, "ok") /\ UNCHANGED <<files, root, perCall, shown, done>>
      BY <1>1, <1>2, <2>1, <3>2 DEF ReadFile, perCall
    <3>3. QED
      BY <2>1, <3>1, <3>2 DEF ReadFile
  <2>2. CASE Walk(c)
    <3>1. CASE Fails(c)
      BY <2>2, <3>1, FailsStep DEF Walk
    <3>2. CASE /\ Works(c, "walking")
               /\ at' = [at EXCEPT ![c] = <<root, 1>>]
               /\ seen' = [seen EXCEPT ![c] = {n \in FileNames : files[<<root, n>>] # Missing}]
               /\ UNCHANGED <<files, root, tmp, found, shown, done>>
      BY <1>1, <1>2, <2>2, <3>2 DEF Walk
    <3>3. QED
      BY <2>2, <3>1, <3>2 DEF Walk
  <2>3. CASE Visit(c)
    <3>1. PICK next \in {"ok", "walking"} : Works(c, next)
      BY <2>3 DEF Visit
    <3>2. /\ work[c] = "walking" /\ UNCHANGED <<files, root, seen, tmp, shown, done>>
          /\ at' = [at EXCEPT ![c] = <<@[1], at[c][2] + 1>>]
      BY <2>3 DEF Visit
    <3>3. QED
      BY <1>1, <1>2, <3>1, <3>2
  <2>4. QED
    BY <2>1, <2>2, <2>3
<1>3. next \in States
  BY DEF States, Outcomes
<1>4. RoundOK' /\ ConsoleOK' /\ ConsentOK'
  BY <1>2, <1>3, WorksKeeps
<1>5. KindOK'
  BY <1>2, <1>3, KindKeeps
<1>6. FilesOK' /\ RenamesOK' /\ ShownOK'
  BY <1>1, <1>2, <1>3, OtherToolKeepsFiles
<1>7. ChildrenOK'
  BY <1>1, <1>2, <1>3, OtherToolKeepsChildren
<1>8. QED
  BY <1>4, <1>5, <1>6, <1>7 DEF IInv

LEMMA CommandStep ==
  ASSUME IInv, NEW c \in Calls, StartCommand(c) \/ CommandExits(c) \/ KillCommand(c),
         UNCHANGED childVars
  PROVE  IInv'
<1>1. DOMAIN seen = Calls /\ DOMAIN at = Calls
  BY DEF IInv, FilesOK
<1>2. SUFFICES ASSUME NEW next \in {"child", "ok", "error"}, Works(c, next),
                      work[c] \in {"start", "child"}, Tool[c] = "run_command", UNCHANGED fileVars
               PROVE  IInv'
  <2>1. CASE StartCommand(c)
    <3>1. CASE Fails(c)
      BY <2>1, <3>1, FailsStep DEF StartCommand
    <3>2. CASE Works(c, "child") /\ UNCHANGED fileVars
      BY <1>2, <2>1, <3>2 DEF StartCommand
    <3>3. QED
      BY <2>1, <3>1, <3>2 DEF StartCommand
  <2>2. CASE CommandExits(c)
    <3>1. PICK next \in {"ok", "error"} : Works(c, next)
      BY <2>2 DEF CommandExits
    <3>2. QED
      BY <1>2, <2>2, <3>1 DEF CommandExits, IInv, KindOK
  <2>3. CASE KillCommand(c)
    BY <1>2, <2>3 DEF KillCommand, IInv, KindOK
  <2>4. QED
    BY <2>1, <2>2, <2>3
<1>3. next \in States /\ Tool[c] \notin Writers \cup {"sub_agent"}
  BY <1>2 DEF States, Outcomes, Writers
<1>4. UNCHANGED <<files, root, seen, tmp, at, shown, done>>
  BY <1>2 DEF fileVars
<1>5. RoundOK' /\ ConsoleOK' /\ ConsentOK'
  BY <1>2, <1>3, WorksKeeps
<1>6. KindOK'
  BY <1>2, <1>3, KindKeeps
<1>7. FilesOK' /\ RenamesOK' /\ ShownOK'
  BY <1>1, <1>2, <1>3, <1>4, OtherToolKeepsFiles
<1>8. ChildrenOK'
  BY <1>2, <1>3, OtherToolKeepsChildren
<1>9. QED
  BY <1>5, <1>6, <1>7, <1>8 DEF IInv

\* What an edit or a write makes of a text is a text, or nothing; an edit makes nothing of
\* a file that is not there.
LEMMA ResultIsText ==
  ASSUME NEW c \in Calls, Tool[c] \in Writers, NEW content \in Texts \cup {Missing}
  PROVE  /\ Result(c, content) \in Texts \cup {None}
         /\ Result(c, content) # None /\ Tool[c] = "edit_file" => content # Missing
<1>1. Input[c].text \in Texts /\ Input[c].new \in Strings
  BY FileAssumption, StringsAreTexts DEF FileAssumption, Strings
<1>2. CASE Tool[c] = "write_file"
  BY <1>1, <1>2 DEF Result
<1>3. CASE Tool[c] = "edit_file"
  <2>1. CASE content = Missing
    BY <1>3, <2>1 DEF Result
  <2>2. CASE content # Missing
    <3>1. content \in Seq(Strings) /\ Len(content) \in Nat
      BY <2>2 DEF Texts
    <3>2. \A k \in 1..Len(content) :
            (IF content[k] = Input[c].old THEN Input[c].new ELSE content[k]) \in Strings
      BY <1>1, <3>1
    <3>3. ApplyEdit(content, Input[c].old, Input[c].new) \in Texts
      BY <3>1, <3>2 DEF ApplyEdit, Texts
    <3>4. QED
      BY <1>3, <2>2, <3>3 DEF Result
  <2>3. QED
    BY <2>1, <2>2
<1>4. QED
  BY <1>2, <1>3 DEF Writers

\* readAndApply: what goes into the temporary file is the result for the text just read,
\* and while the call may still go on its path means what it did in the preview.
LEMMA ComputeStep ==
  ASSUME IInv, NEW c \in Calls, Compute(c), UNCHANGED childVars
  PROVE  IInv'
<1> DEFINE file == Resolve(Input[c].path)
           new == Result(c, files[file])
<1>1. Tool[c] \in Writers /\ work[c] = "start"
  BY DEF Compute, Writers
<1>2. CASE Fails(c)
  BY <1>1, <1>2, FailsStep
<1>3. CASE /\ Resolves(Input[c].path) /\ new # None
           /\ Works(c, "temp") /\ at' = [at EXCEPT ![c] = file]
           /\ seen' = [seen EXCEPT ![c] = files[file]] /\ tmp' = [tmp EXCEPT ![c] = new]
           /\ UNCHANGED <<files, root, found, shown, done>>
  <2>1. /\ UNCHANGED <<todo, round, phase, answer, stopped, cancelled>>
        /\ work'[c] = "temp" /\ (\A d \in Calls : d # c => work'[d] = work[d])
        /\ phase[c] = "running" \/ answer[c] = "abandoned"
    BY <1>3, WorksFrame
  <2>2. "temp" \in States
    BY DEF States
  <2>3. RoundOK' /\ ConsoleOK' /\ ConsentOK' /\ KindOK'
    BY <1>1, <1>3, <2>2, WorksKeeps, KindKeeps
  <2>4. ChildrenOK'
    BY <1>3, <2>2, OtherToolKeepsChildren
  <2>5. file \in Roots \X FileNames /\ files[file] \in Texts \cup {Missing}
    BY <1>3 DEF Resolve, Resolves, IInv, FilesOK
  <2>6. new \in Texts /\ (Tool[c] = "edit_file" => files[file] # Missing)
    BY <1>1, <1>3, <2>5, ResultIsText
  <2>7. /\ DOMAIN seen = Calls /\ DOMAIN at = Calls /\ DOMAIN tmp = Calls
        /\ DOMAIN seen' = Calls /\ DOMAIN at' = Calls /\ DOMAIN tmp' = Calls
        /\ seen'[c] = files[file] /\ at'[c] = file /\ tmp'[c] = new
        /\ \A d \in Calls : d # c => seen'[d] = seen[d] /\ at'[d] = at[d] /\ tmp'[d] = tmp[d]
    BY <1>3 DEF IInv, FilesOK
  <2> HIDE DEF file
  <2>8. FilesOK'
    <3>1. ASSUME NEW d \in Calls
          PROVE  /\ work'[d] \in {"temp", "looked"} =>
                      /\ tmp'[d] \in Texts /\ at'[d] \in Roots \X FileNames
                      /\ tmp'[d] = Result(d, seen'[d])
                      /\ Tool[d] = "edit_file" => seen'[d] # Missing
                 /\ work'[d] \notin {"temp", "looked"} => tmp'[d] = None
      <4>1. CASE d = c
        BY <2>1, <2>5, <2>6, <2>7, <4>1
      <4>2. CASE d # c
        BY <2>1, <2>7, <4>2 DEF IInv, FilesOK
      <4>3. QED
        BY <4>1, <4>2
    <3>2. QED
      BY <1>3, <2>7, <3>1 DEF IInv, FilesOK, Result
  <2>9. RenamesOK'
    <3>1. RenamedBy(c) = {}
      BY <1>1 DEF IInv, RenamesOK
    <3>2. \A d \in Calls : RenamedBy(d)' = RenamedBy(d)
      BY <1>3 DEF RenamedBy
    <3>3. ASSUME NEW i \in DOMAIN done
          PROVE  seen'[done[i].call] = seen[done[i].call]
      <4>1. done[i].call \in Calls
        BY RenameIsOfAWriter
      <4>2. done[i].call # c
        BY <3>1 DEF RenamedBy
      <4>3. QED
        BY <2>7, <4>1, <4>2
    <3>4. \A d \in Calls : work'[d] = "ok" <=> work[d] = "ok"
      BY <1>1, <2>1
    <3>5. QED
      BY <1>3, <3>2, <3>3, <3>4 DEF IInv, RenamesOK, RenamedBy, Result
  <2>10. ShownOK'
    <3>1. ASSUME NEW d \in Calls, shown[d] # None,
                 \/ work'[d] = "temp" /\ ~Stopped(d)'
                 \/ work'[d] = "looked"
                 \/ work'[d] = "ok" /\ Tool[d] \in Writers
          PROVE  at'[d] = shown[d].file
      <4>1. CASE d = c
        <5>1. ~Stopped(c)
          BY <2>1, <3>1, <4>1 DEF Stopped
        <5>2. answer[c] = None
          BY <2>1, <5>1, Assumptions DEF IInv, RoundOK, Stopped
        <5>3. QED
          BY <2>7, <3>1, <4>1, <5>2 DEF IInv, ShownOK, file
      <4>2. CASE d # c
        BY <2>1, <2>7, <3>1, <4>2 DEF IInv, ShownOK, Stopped
      <4>3. QED
        BY <4>1, <4>2
    <3>2. \A d \in Calls : shown[d] # None /\ answer[d] = None =>
                             shown[d].file = Resolve(Input[d].path)'
      BY <1>3 DEF IInv, ShownOK, Resolve
    <3>3. QED
      BY <1>3, <2>1, <3>1, <3>2 DEF IInv, ShownOK, Result, TextOf
  <2>11. QED
    BY <2>3, <2>4, <2>8, <2>9, <2>10 DEF IInv
<1>4. QED
  BY <1>2, <1>3 DEF Compute

\* atomicWriteFile gives up: the temporary file goes, and nothing was renamed.
LEMMA DropsStep ==
  ASSUME IInv, NEW c \in Calls, work[c] \in {"temp", "looked"}, Drops(c), UNCHANGED childVars
  PROVE  IInv'
<1>1. /\ Works(c, "error") /\ "error" \in States /\ tmp' = [tmp EXCEPT ![c] = None]
      /\ UNCHANGED <<files, root, seen, at, shown, done>>
  BY DEF Drops, States, Outcomes
<1>2. /\ UNCHANGED <<todo, round, phase, answer, stopped, cancelled>>
      /\ work'[c] = "error" /\ (\A d \in Calls : d # c => work'[d] = work[d])
  BY <1>1, WorksFrame
<1>3. RoundOK' /\ ConsoleOK' /\ ConsentOK' /\ KindOK' /\ ChildrenOK'
  BY <1>1, WorksKeeps, KindKeeps, OtherToolKeepsChildren
<1>4. FilesOK'
  <2>1. /\ DOMAIN tmp' = Calls /\ tmp'[c] = None
        /\ \A d \in Calls : d # c => tmp'[d] = tmp[d]
    BY <1>1 DEF IInv, FilesOK
  <2>2. ASSUME NEW d \in Calls
        PROVE  /\ work'[d] \in {"temp", "looked"} =>
                    /\ tmp'[d] \in Texts /\ at'[d] \in Roots \X FileNames
                    /\ tmp'[d] = Result(d, seen'[d])
                    /\ Tool[d] = "edit_file" => seen'[d] # Missing
               /\ work'[d] \notin {"temp", "looked"} => tmp'[d] = None
    <3>1. CASE d = c
      BY <1>2, <2>1, <3>1
    <3>2. CASE d # c
      BY <1>1, <1>2, <2>1, <3>2 DEF IInv, FilesOK
    <3>3. QED
      BY <3>1, <3>2
  <2>3. QED
    BY <1>1, <2>1, <2>2 DEF IInv, FilesOK, Result
<1>5. RenamesOK'
  <2>1. \A d \in Calls : RenamedBy(d)' = RenamedBy(d)
    BY <1>1 DEF RenamedBy
  <2>2. \A d \in Calls : work'[d] = "ok" <=> work[d] = "ok"
    BY <1>2
  <2>3. QED
    BY <1>1, <2>1, <2>2 DEF IInv, RenamesOK, RenamedBy, Result
<1>6. ShownOK'
  BY <1>1, <1>2 DEF IInv, ShownOK, Result, TextOf, Resolve, Stopped
<1>7. QED
  BY <1>3, <1>4, <1>5, <1>6 DEF IInv

LEMMA LookAtContextStep ==
  ASSUME IInv, NEW c \in Calls, LookAtContext(c), UNCHANGED childVars
  PROVE  IInv'
<1>1. work[c] = "temp"
  BY DEF LookAtContext
<1>2. CASE Stopped(c)
  BY <1>1, <1>2, DropsStep DEF LookAtContext
<1>3. CASE ~Stopped(c)
  <2>1. /\ Works(c, "looked") /\ "looked" \in States
        /\ UNCHANGED <<files, root, seen, tmp, at, shown, done>>
    BY <1>3 DEF LookAtContext, perCall, States
  <2>2. /\ UNCHANGED <<todo, round, phase, answer, stopped, cancelled>>
        /\ work'[c] = "looked" /\ (\A d \in Calls : d # c => work'[d] = work[d])
    BY <2>1, WorksFrame
  <2>3. Tool[c] \in Writers
    BY <1>1 DEF IInv, KindOK
  <2>4. RoundOK' /\ ConsoleOK' /\ ConsentOK' /\ KindOK' /\ ChildrenOK'
    BY <2>1, <2>3, WorksKeeps, KindKeeps, OtherToolKeepsChildren
  <2>5. \A d \in Calls : /\ work'[d] \in {"temp", "looked"} <=> work[d] \in {"temp", "looked"}
                         /\ work'[d] = "ok" <=> work[d] = "ok"
    BY <1>1, <2>2
  <2>6. FilesOK'
    BY <2>1, <2>5 DEF IInv, FilesOK, Result
  <2>7. RenamesOK'
    <3>1. \A d \in Calls : RenamedBy(d)' = RenamedBy(d)
      BY <2>1 DEF RenamedBy
    <3>2. QED
      BY <2>1, <2>5, <3>1 DEF IInv, RenamesOK, RenamedBy, Result
  <2>8. ShownOK'
    <3>1. ASSUME NEW d \in Calls, shown[d] # None,
                 \/ work'[d] = "temp" /\ ~Stopped(d)'
                 \/ work'[d] = "looked"
                 \/ work'[d] = "ok" /\ Tool[d] \in Writers
          PROVE  at[d] = shown[d].file
      <4>1. CASE d = c
        BY <1>1, <1>3, <3>1, <4>1 DEF IInv, ShownOK
      <4>2. CASE d # c
        BY <2>2, <3>1, <4>2 DEF IInv, ShownOK, Stopped
      <4>3. QED
        BY <4>1, <4>2
    <3>2. QED
      BY <2>1, <2>2, <3>1 DEF IInv, ShownOK, Result, TextOf, Resolve
  <2>9. QED
    BY <2>4, <2>6, <2>7, <2>8 DEF IInv
<1>4. QED
  BY <1>2, <1>3

\* The rename itself, the call's one and last.
LEMMA RenameStep ==
  ASSUME IInv, NEW c \in Calls, Rename(c), UNCHANGED childVars
  PROVE  IInv'
<1> DEFINE Renames == [call : Calls, was : Texts \cup {Missing}, now : Texts]
           rename == [call |-> c, was |-> files[at[c]], now |-> tmp[c]]
<1>1. /\ work[c] = "looked" /\ Works(c, "ok") /\ "ok" \in States
      /\ files' = [files EXCEPT ![at[c]] = tmp[c]] /\ tmp' = [tmp EXCEPT ![c] = None]
      /\ done' = Append(done, rename) /\ UNCHANGED <<root, seen, at, shown>>
  BY DEF Rename, States, Outcomes
<1>2. /\ UNCHANGED <<todo, round, phase, answer, stopped, cancelled>>
      /\ work'[c] = "ok" /\ (\A d \in Calls : d # c => work'[d] = work[d])
  BY <1>1, WorksFrame
<1>3. Tool[c] \in Writers /\ Tool[c] # "sub_agent"
  BY <1>1 DEF IInv, KindOK, Writers
<1>4. RoundOK' /\ ConsoleOK' /\ ConsentOK' /\ KindOK' /\ ChildrenOK'
  BY <1>1, <1>3, WorksKeeps, KindKeeps, OtherToolKeepsChildren
<1>5. /\ tmp[c] \in Texts /\ at[c] \in Roots \X FileNames /\ tmp[c] = Result(c, seen[c])
      /\ Tool[c] = "edit_file" => seen[c] # Missing
      /\ files \in [Roots \X FileNames -> Texts \cup {Missing}]
  BY <1>1 DEF IInv, FilesOK
<1>6. rename \in Renames /\ rename.call = c /\ rename.now = tmp[c]
  BY <1>5
<1>7. done \in Seq(Renames)
  BY DEF IInv, RenamesOK
<1> HIDE DEF Renames, rename
<1>8. /\ done' \in Seq(Renames) /\ Len(done') = Len(done) + 1 /\ Len(done) \in Nat
      /\ \A i \in 1..Len(done) : done'[i] = done[i]
      /\ done'[Len(done) + 1] = rename
  BY <1>1, <1>6, <1>7, AppendProperties
<1>9. DOMAIN done = 1..Len(done) /\ DOMAIN done' = 1..(Len(done) + 1)
  BY <1>7, <1>8, LenProperties
<1>10. /\ RenamedBy(c)' = {Len(done) + 1}
       /\ \A d \in Calls : d # c => RenamedBy(d)' = RenamedBy(d)
  <2>1. RenamedBy(c) = {}
    BY <1>1 DEF IInv, RenamesOK
  <2>2. \A d \in Calls : \A i : i \in RenamedBy(d)' <=>
                           i \in RenamedBy(d) \/ (i = Len(done) + 1 /\ d = c)
    BY <1>6, <1>8, <1>9 DEF RenamedBy
  <2>3. QED
    BY <2>1, <2>2
<1>11. FilesOK'
  <2>1. files' \in [Roots \X FileNames -> Texts \cup {Missing}]
    BY <1>1, <1>5
  <2>2. /\ DOMAIN tmp' = Calls /\ tmp'[c] = None
        /\ \A d \in Calls : d # c => tmp'[d] = tmp[d]
    BY <1>1 DEF IInv, FilesOK
  <2>3. ASSUME NEW d \in Calls
        PROVE  /\ work'[d] \in {"temp", "looked"} =>
                    /\ tmp'[d] \in Texts /\ at'[d] \in Roots \X FileNames
                    /\ tmp'[d] = Result(d, seen'[d])
                    /\ Tool[d] = "edit_file" => seen'[d] # Missing
               /\ work'[d] \notin {"temp", "looked"} => tmp'[d] = None
    <3>1. CASE d = c
      BY <1>2, <2>2, <3>1
    <3>2. CASE d # c
      BY <1>1, <1>2, <2>2, <3>2 DEF IInv, FilesOK
    <3>3. QED
      BY <3>1, <3>2
  <2>4. QED
    BY <1>1, <2>1, <2>2, <2>3 DEF IInv, FilesOK, Result
<1>12. RenamesOK'
  <2>1. ASSUME NEW i \in DOMAIN done'
        PROVE  /\ done'[i].now = Result(done'[i].call, seen[done'[i].call])
               /\ Tool[done'[i].call] \in Writers
               /\ Tool[done'[i].call] = "edit_file" => seen[done'[i].call] # Missing
    <3>1. CASE i \in DOMAIN done
      BY <1>8, <1>9, <3>1 DEF IInv, RenamesOK
    <3>2. CASE i = Len(done) + 1
      BY <1>3, <1>5, <1>6, <1>8, <3>2
    <3>3. QED
      BY <1>8, <1>9, <3>1, <3>2
  <2>2. ASSUME NEW d \in Calls
        PROVE  /\ work'[d] # "ok" => RenamedBy(d)' = {}
               /\ work'[d] = "ok" /\ Tool[d] \in Writers =>
                    \E i \in DOMAIN done' : RenamedBy(d)' = {i}
    <3>1. CASE d = c
      BY <1>2, <1>8, <1>9, <1>10, <3>1
    <3>2. CASE d # c
      <4>1. DOMAIN done \subseteq DOMAIN done'
        BY <1>8, <1>9
      <4>2. QED
        BY <1>2, <1>10, <3>2, <4>1 DEF IInv, RenamesOK
    <3>3. QED
      BY <3>1, <3>2
  <2>3. QED
    BY <1>1, <1>8, <2>1, <2>2 DEF RenamesOK, RenamedBy, Renames, Result
<1>13. ShownOK'
  <2>1. ASSUME NEW d \in Calls, shown[d] # None,
               \/ work'[d] = "temp" /\ ~Stopped(d)'
               \/ work'[d] = "looked"
               \/ work'[d] = "ok" /\ Tool[d] \in Writers
        PROVE  at[d] = shown[d].file
    <3>1. CASE d = c
      BY <1>1, <2>1, <3>1 DEF IInv, ShownOK
    <3>2. CASE d # c
      BY <1>2, <2>1, <3>2 DEF IInv, ShownOK, Stopped
    <3>3. QED
      BY <3>1, <3>2
  <2>2. QED
    BY <1>1, <1>2, <2>1 DEF IInv, ShownOK, Result, TextOf, Resolve
<1>14. QED
  BY <1>4, <1>11, <1>12, <1>13 DEF IInv

LEMMA FileStepKeeps ==
  ASSUME IInv, NEW c \in Calls, FileStep(c), UNCHANGED childVars
  PROVE  IInv'
<1>1. CASE WriteFails(c)
  BY <1>1, DropsStep DEF WriteFails
<1>2. QED
  BY <1>1, LookingStep, ComputeStep, LookAtContextStep, RenameStep, CommandStep DEF FileStep
-----------------------------------------------------------------------------
(* The sub-agent. *)

LEMMA Budgets ==
  ASSUME IInv
  PROVE  /\ ChildTurns \in Nat \ {0} /\ Left \in Nat \ {0} /\ LargestReply \in Nat
         /\ \A n \in Replies : n <= LargestReply
         /\ ParentBudget > 0 => ChildBudget = Left
<1>1. /\ ParentTurns \in Nat /\ ParentBudget \in Nat /\ MaxChildTurns \in Nat \ {0}
      /\ Replies \subseteq Nat /\ spent \in Nat
      /\ \E most \in Replies : \A n \in Replies : n <= most
  BY SubAgentAssumption DEF SubAgentAssumption, IInv, ChildrenOK
<1>2. ChildTurns \in Nat \ {0}
  BY <1>1 DEF ChildTurns, SmallerOf
<1>3. Left \in Nat \ {0}
  BY <1>1 DEF Left
<1>4. LargestReply \in Replies /\ \A n \in Replies : n <= LargestReply
  BY <1>1 DEF LargestReply
<1>5. ParentBudget > 0 => ChildBudget = Left
  BY <1>1 DEF ChildBudget, Left
<1>6. QED
  BY <1>1, <1>2, <1>3, <1>4, <1>5

\* No step of a sub-agent touches the workspace.
LEMMA SubAgentStepKeeps ==
  ASSUME IInv, NEW c \in Calls, SubAgentStep(c), UNCHANGED fileVars
  PROVE  IInv'
<1>1. UNCHANGED <<files, root, seen, tmp, at, shown, done>>
  BY DEF fileVars
<1>2. SUFFICES ASSUME NEW next \in {"error", "chat", "tools", "ok"}, Works(c, next),
                      work[c] \in {"start", "chat", "tools"}, Tool[c] = "sub_agent", ChildrenOK'
               PROVE  IInv'
  <2>1. CASE StartChild(c)
    <3>1. PICK next \in {"error", "chat"} : Works(c, next)
      BY <2>1 DEF StartChild
    <3>2. work'[c] = next /\ (\A d \in Calls : d # c => work'[d] = work[d])
      BY <3>1, WorksFrame
    <3>3. ChildrenOK'
      BY <2>1, <3>2, Budgets DEF StartChild, IInv, ChildrenOK, childVars, Left
    <3>4. QED
      BY <1>2, <2>1, <3>1, <3>3 DEF StartChild
  <2>2. CASE ChildFails(c)
    <3>1. work[c] = "chat" /\ Works(c, "error") /\ "error" \in States /\ Tool[c] = "sub_agent"
      BY <2>2 DEF ChildFails, States, Outcomes, IInv, KindOK
    <3>2. ChildrenOK'
      BY <2>2, <3>1, OtherToolKeepsChildren DEF ChildFails
    <3>3. QED
      BY <1>2, <3>1, <3>2
  <2>3. CASE ChildTools(c)
    <3>1. /\ work[c] = "tools" /\ Works(c, IF ChildTripped(c) THEN "error" ELSE "chat")
          /\ UNCHANGED childVars /\ Tool[c] = "sub_agent"
      BY <2>3 DEF ChildTools, IInv, KindOK
    <3>2. /\ work'[c] = (IF ChildTripped(c) THEN "error" ELSE "chat")
          /\ \A d \in Calls : d # c => work'[d] = work[d]
      BY <3>1, WorksFrame
    <3>3. ChildrenOK'
      <4>1. UNCHANGED <<child, spent>> /\ Left' = Left
        BY <3>1 DEF childVars, Left
      <4>2. /\ child[c].turns \in Nat /\ child[c].tokens \in Nat
            /\ ~ChildTripped(c) => /\ child[c].turns < ChildTurns
                                   /\ ParentBudget > 0 => child[c].tokens < Left
        BY Budgets DEF ChildTripped, IInv, ChildrenOK
      <4>3. QED
        BY <3>2, <4>1, <4>2 DEF IInv, ChildrenOK
    <3>4. QED
      BY <1>2, <3>1, <3>3
  <2>4. ASSUME NEW n \in Replies, NEW final \in BOOLEAN, ChildReply(c, n, final) PROVE IInv'
    <3>1. /\ work[c] = "chat" /\ Works(c, IF final THEN "ok" ELSE "tools") /\ UNCHANGED spent
          /\ child' = [child EXCEPT ![c] = [turns |-> child[c].turns + 1,
                                            tokens |-> child[c].tokens + n, final |-> final]]
          /\ Tool[c] = "sub_agent"
      BY <2>4 DEF ChildReply, IInv, KindOK
    <3>2. /\ work'[c] = (IF final THEN "ok" ELSE "tools")
          /\ \A d \in Calls : d # c => work'[d] = work[d]
      BY <3>1, WorksFrame
    <3>3. ChildrenOK'
      <4>1. Left' = Left /\ n \in Nat /\ n <= LargestReply /\ LargestReply \in Nat /\ Left \in Nat
        BY <3>1, Budgets, SubAgentAssumption DEF Left, SubAgentAssumption
      <4>2. /\ child \in [Calls -> [turns : Nat, tokens : Nat, final : BOOLEAN]]
            /\ child[c].turns \in Nat /\ child[c].tokens \in Nat /\ child[c].turns < ChildTurns
            /\ ParentBudget > 0 => child[c].tokens < Left
        BY <3>1 DEF IInv, ChildrenOK
      <4>3. /\ child' \in [Calls -> [turns : Nat, tokens : Nat, final : BOOLEAN]]
            /\ child'[c].turns = child[c].turns + 1 /\ child'[c].tokens = child[c].tokens + n
            /\ child'[c].final = final
            /\ \A d \in Calls : d # c => child'[d] = child[d]
        BY <3>1, <4>1, <4>2
      <4>4. child'[c].turns <= ChildTurns
        BY <4>2, <4>3, Budgets
      <4>5. ParentBudget > 0 => child'[c].tokens < Left + LargestReply
        BY <4>1, <4>2, <4>3
      <4>6. ASSUME NEW d \in Calls
            PROVE  /\ work'[d] = "ok" /\ Tool[d] = "sub_agent" => child'[d].final
                   /\ child'[d].turns <= ChildTurns
                   /\ work'[d] = "start" => child'[d].turns = 0 /\ child'[d].tokens = 0
                   /\ work'[d] = "chat" => child'[d].turns < ChildTurns
                   /\ ParentBudget > 0 =>
                        /\ child'[d].tokens < Left + LargestReply
                        /\ work'[d] \in {"start", "chat"} => child'[d].tokens < Left
        <5>1. CASE d = c
          BY <3>2, <4>3, <4>4, <4>5, <5>1
        <5>2. CASE d # c
          BY <3>2, <4>3, <5>2 DEF IInv, ChildrenOK
        <5>3. QED
          BY <5>1, <5>2
      <4>7. spent' \in Nat
        BY <3>1 DEF IInv, ChildrenOK
      <4>8. QED
        BY <4>1, <4>3, <4>6, <4>7 DEF ChildrenOK
    <3>4. QED
      BY <1>2, <3>1, <3>3
  <2>5. QED
    BY <2>1, <2>2, <2>3, <2>4 DEF SubAgentStep
<1>3. next \in States /\ Tool[c] \notin Writers
  BY <1>2 DEF States, Outcomes, Writers
<1>4. RoundOK' /\ ConsoleOK' /\ ConsentOK'
  BY <1>2, <1>3, WorksKeeps
<1>5. KindOK'
  BY <1>2, <1>3, KindKeeps
<1>6. FilesOK' /\ RenamesOK' /\ ShownOK'
  BY <1>1, <1>2, <1>3, OtherToolKeepsFiles DEF IInv, FilesOK
<1>7. QED
  BY <1>2, <1>4, <1>5, <1>6 DEF IInv
-----------------------------------------------------------------------------
(* The round: its beginning, the console, the contexts and the answers. *)

\* What no tool has a part in leaves the files, the renames and the sub-agents.
LEMMA NoToolKeeps ==
  ASSUME IInv, UNCHANGED <<work, files, seen, tmp, at, done, childVars>>, root' \in Roots
  PROVE  KindOK' /\ FilesOK' /\ RenamesOK' /\ ChildrenOK'
<1>1. UNCHANGED <<child, spent>>
  BY DEF childVars
<1>2. KindOK' /\ FilesOK'
  BY DEF IInv, KindOK, FilesOK, Result
<1>3. RenamesOK'
  BY DEF IInv, RenamesOK, RenamedBy, Result
<1>4. ChildrenOK'
  BY <1>1 DEF IInv, ChildrenOK, Left
<1>5. QED
  BY <1>2, <1>3, <1>4

\* A preview stays true while its call is out, unless /cd moves the root.
LEMMA ShownKeeps ==
  ASSUME IInv, UNCHANGED <<work, root, at, shown>>,
         \A c \in Calls : /\ phase'[c] \in {"later", "approval"} => phase[c] \in {"later", "approval"}
                          /\ answer'[c] = None => answer[c] = None
                          /\ Stopped(c) => Stopped(c)'
  PROVE  ShownOK'
<1>1. \A c \in Calls : Resolve(Input[c].path)' = Resolve(Input[c].path)
  BY DEF Resolve
<1>2. QED
  BY <1>1 DEF IInv, ShownOK, Result, TextOf

LEMMA RootTyped == IInv => root \in Roots
BY DEF IInv, FilesOK

LEMMA BeginRoundStep ==
  ASSUME IInv, BeginRound, UNCHANGED <<fileVars, childVars>>
  PROVE  IInv'
<1>1. /\ Answered /\ todo # <<>> /\ todo' = Tail(todo) /\ round' = Head(todo)
      /\ phase' = [c \in Calls |-> IF c \in Head(todo) THEN "approval" ELSE phase[c]]
      /\ UNCHANGED <<work, answer, stopped, cancelled, prompts, lines, read, consent, crossed>>
      /\ UNCHANGED <<files, root, seen, tmp, at, shown, done>> /\ UNCHANGED childVars
  BY DEF BeginRound, contexts, console, fileVars
<1>2. todo \in Seq(SUBSET Calls) /\ Head(todo) \subseteq Calls
  BY <1>1 DEF IInv, RoundOK
<1>3. /\ todo' \in Seq(SUBSET Calls) /\ Head(todo) = todo[1] /\ 1 \in DOMAIN todo
      /\ \A i \in DOMAIN todo' : i + 1 \in DOMAIN todo /\ todo'[i] = todo[i + 1] /\ i \in Nat \ {0}
  BY <1>1, <1>2
<1>4. \A c \in Head(todo) : phase[c] = "later" /\ answer[c] = None /\ work[c] = "start"
                            /\ shown[c] = None
  BY <1>2, <1>3 DEF IInv, RoundOK, ShownOK
<1>5. RoundOK'
  <2>1. ASSUME NEW i \in DOMAIN todo', NEW j \in DOMAIN todo', i # j
        PROVE  todo'[i] \cap todo'[j] = {}
    <3>1. i + 1 # j + 1 /\ i + 1 \in DOMAIN todo /\ j + 1 \in DOMAIN todo
      BY <1>3, <2>1
    <3>2. todo[i + 1] \cap todo[j + 1] = {}
      BY <3>1 DEF IInv, RoundOK
    <3>3. QED
      BY <1>3, <3>2
  <2>2. ASSUME NEW i \in DOMAIN todo', NEW c \in todo'[i] PROVE phase'[c] = "later"
    <3>1. c \in todo[i + 1] /\ i + 1 \in DOMAIN todo /\ i + 1 # 1 /\ c \in Calls
      BY <1>2, <1>3, <2>2 DEF IInv, RoundOK
    <3>2. c \notin Head(todo) /\ phase[c] = "later"
      BY <1>3, <3>1 DEF IInv, RoundOK
    <3>3. QED
      BY <1>1, <3>1, <3>2
  <2>3. ASSUME NEW c \in Calls
        PROVE  /\ phase'[c] \in {"approval", "asking", "running"} => c \in Head(todo)
               /\ phase'[c] \in {"later", "approval", "asking"} => work[c] = "start"
               /\ phase'[c] = "over" <=> answer[c] # None
    <3>1. CASE c \in Head(todo)
      BY <1>1, <1>4, <3>1
    <3>2. CASE c \notin Head(todo)
      <4>1. phase'[c] = phase[c]
        BY <1>1, <3>2
      <4>2. phase[c] \notin {"approval", "asking", "running"}
        BY <1>1 DEF Answered, IInv, RoundOK
      <4>3. QED
        BY <3>2, <4>1, <4>2 DEF IInv, RoundOK
    <3>3. QED
      BY <3>1, <3>2
  <2>4. phase' \in [Calls -> {"later", "approval", "asking", "running", "over"}]
    BY <1>1 DEF IInv, RoundOK
  <2>5. QED
    BY <1>1, <1>2, <1>3, <2>1, <2>2, <2>3, <2>4 DEF IInv, RoundOK
<1>6. \A c \in Calls : /\ phase'[c] = "asking" <=> phase[c] = "asking"
                       /\ phase'[c] = "running" <=> phase[c] = "running"
  BY <1>1, <1>4
<1>7. ConsoleOK'
  BY <1>1, <1>6 DEF IInv, ConsoleOK
<1>8. ConsentOK'
  BY <1>1, <1>6 DEF IInv, ConsentOK, LetIn
<1>9. KindOK' /\ FilesOK' /\ RenamesOK' /\ ChildrenOK'
  BY <1>1, RootTyped, NoToolKeeps
<1>10. ShownOK'
  BY <1>1, <1>4, ShownKeeps DEF Stopped
<1>11. QED
  BY <1>5, <1>7, <1>8, <1>9, <1>10 DEF IInv

\* The user's line, the end of the turn's context, and /cd.
LEMMA UserSteps ==
  ASSUME IInv, \/ (UserTypes \/ Cancel) /\ UNCHANGED fileVars
               \/ \E r \in Roots : Cd(r),
         UNCHANGED childVars
  PROVE  IInv'
<1>1. UNCHANGED <<todo, round, phase, work, answer, stopped, prompts, read, consent, crossed>>
      /\ UNCHANGED <<files, seen, tmp, at, shown, done>> /\ root' \in Roots
  BY RootTyped DEF UserTypes, Cancel, Cd, plan, callVars, contexts, console, fileVars, perCall
<1>2. cancelled' \in BOOLEAN
  BY DEF UserTypes, Cancel, Cd, contexts, IInv, RoundOK
<1>3. RoundOK'
  BY <1>1, <1>2 DEF IInv, RoundOK
<1>4. lines' \in Nat /\ read <= lines' /\ lines' <= Len(prompts)
  BY DEF UserTypes, Cancel, Cd, console, IInv, ConsoleOK
<1>5. ConsoleOK' /\ ConsentOK'
  BY <1>1, <1>4 DEF IInv, ConsoleOK, ConsentOK, LetIn
<1>6. KindOK' /\ FilesOK' /\ RenamesOK' /\ ChildrenOK'
  BY <1>1, NoToolKeeps
<1>7. ShownOK'
  <2>1. CASE (UserTypes \/ Cancel) /\ UNCHANGED fileVars
    <3>1. root' = root /\ (cancelled => cancelled')
      BY <2>1 DEF UserTypes, Cancel, contexts, fileVars
    <3>2. \A c \in Calls : Stopped(c) => Stopped(c)'
      BY <1>1, <3>1 DEF Stopped
    <3>3. QED
      BY <1>1, <3>1, <3>2, ShownKeeps
  <2>2. ASSUME NEW r \in Roots, Cd(r) PROVE ShownOK'
    <3>1. Answered /\ cancelled' = cancelled
      BY <2>2 DEF Cd, contexts
    <3>2. \A c \in Calls : shown[c] # None => answer[c] # None
      BY <3>1 DEF Answered, IInv, RoundOK, ShownOK
    <3>3. QED
      BY <1>1, <3>1, <3>2 DEF IInv, ShownOK, Result, TextOf, Stopped
  <2>3. QED
    BY <2>1, <2>2
<1>8. QED
  BY <1>3, <1>5, <1>6, <1>7 DEF IInv

LEMMA NeedsNoApprovalStep ==
  ASSUME IInv, NEW c \in Calls, NeedsNoApproval(c), UNCHANGED <<fileVars, childVars>>
  PROVE  IInv'
<1>1. /\ phase[c] = "approval" /\ Tool[c] \notin Gated /\ phase' = [phase EXCEPT ![c] = "running"]
      /\ UNCHANGED <<todo, round, work, answer, stopped, cancelled>>
      /\ UNCHANGED <<prompts, lines, read, consent, crossed>>
      /\ UNCHANGED <<files, root, seen, tmp, at, shown, done>> /\ UNCHANGED childVars
  BY DEF NeedsNoApproval, plan, contexts, console, fileVars
<1>2. phase'[c] = "running" /\ (\A d \in Calls : d # c => phase'[d] = phase[d])
  BY <1>1 DEF IInv, RoundOK
<1>3. RoundOK'
  <2>1. phase' \in [Calls -> {"later", "approval", "asking", "running", "over"}]
    BY <1>1 DEF IInv, RoundOK
  <2>2. \A i \in DOMAIN todo : \A d \in todo[i] : d \in Calls /\ d # c
    BY <1>1 DEF IInv, RoundOK
  <2>3. QED
    BY <1>1, <1>2, <2>1, <2>2 DEF IInv, RoundOK
<1>4. ConsoleOK'
  BY <1>1, <1>2 DEF IInv, ConsoleOK
<1>5. ConsentOK'
  BY <1>1, <1>2 DEF IInv, ConsentOK, LetIn
<1>6. KindOK' /\ FilesOK' /\ RenamesOK' /\ ChildrenOK'
  BY <1>1, RootTyped, NoToolKeeps
<1>7. ShownOK'
  BY <1>1, <1>2, ShownKeeps DEF Stopped
<1>8. QED
  BY <1>3, <1>4, <1>5, <1>6, <1>7 DEF IInv

\* The preview and the prompt: a second one that waits is noted as crossed.
LEMMA PreviewStep ==
  ASSUME IInv, NEW c \in Calls, Preview(c), UNCHANGED childVars
  PROVE  IInv'
<1> DEFINE file == Resolve(Input[c].path)
           new == Result(c, files[file])
<1>1. /\ phase[c] = "approval" /\ Tool[c] \in Gated /\ phase' = [phase EXCEPT ![c] = "asking"]
      /\ prompts' = Append(prompts, c)
      /\ crossed' = (crossed \/ \E d \in Calls : phase[d] = "asking")
      /\ UNCHANGED <<todo, round, work, answer, stopped, cancelled, lines, read, consent>>
      /\ UNCHANGED <<files, root, seen, tmp, at, done>>
  BY DEF Preview, Prompt, plan, contexts, perCall
<1>2. phase'[c] = "asking" /\ (\A d \in Calls : d # c => phase'[d] = phase[d])
  BY <1>1 DEF IInv, RoundOK
<1>3. RoundOK'
  <2>1. phase' \in [Calls -> {"later", "approval", "asking", "running", "over"}]
    BY <1>1 DEF IInv, RoundOK
  <2>2. \A i \in DOMAIN todo : \A d \in todo[i] : d \in Calls /\ d # c
    BY <1>1 DEF IInv, RoundOK
  <2>3. QED
    BY <1>1, <1>2, <2>1, <2>2 DEF IInv, RoundOK
<1>4. ConsoleOK'
  <2>1. /\ prompts \in Seq(Calls) /\ Len(prompts) \in Nat
        /\ prompts' \in Seq(Calls) /\ Len(prompts') = Len(prompts) + 1
        /\ prompts'[Len(prompts) + 1] = c
    BY <1>1 DEF IInv, ConsoleOK
  <2>2. /\ lines' \in Nat /\ read' \in Nat /\ read' <= lines' /\ lines' <= Len(prompts')
        /\ consent' \in [Calls -> Calls \cup {None}]
    BY <1>1, <2>1 DEF IInv, ConsoleOK
  <2>3. crossed' \in BOOLEAN
    BY <1>1 DEF IInv, ConsoleOK
  <2>4. ASSUME ~crossed'
        PROVE  /\ \A d \in Calls : phase'[d] = "asking" => d = c
               /\ Len(prompts') = read + 1
    <3>1. ~crossed /\ \A d \in Calls : phase[d] # "asking"
      BY <1>1, <2>4
    <3>2. Len(prompts) = read
      BY <3>1 DEF IInv, ConsoleOK
    <3>3. QED
      BY <1>2, <2>1, <3>1, <3>2
  <2>5. QED
    BY <1>1, <1>2, <2>1, <2>2, <2>3, <2>4 DEF IInv, ConsoleOK
<1>5. ConsentOK'
  <2>1. \A d \in Calls : LetIn(d)' => LetIn(d)
    BY <1>1, <1>2 DEF LetIn
  <2>2. crossed => crossed'
    BY <1>1
  <2>3. QED
    BY <1>1, <2>1, <2>2 DEF IInv, ConsentOK, LetIn
<1>6. KindOK' /\ FilesOK' /\ RenamesOK' /\ ChildrenOK'
  BY <1>1, RootTyped, NoToolKeeps
<1>7. /\ DOMAIN shown' = Calls /\ (\A d \in Calls : d # c => shown'[d] = shown[d])
      /\ shown'[c] = IF Tool[c] = "run_command" \/ ~Resolves(Input[c].path) \/ new = None THEN None
                     ELSE [file |-> file, diff |-> LineDiff(TextOf(files[file]), new)]
  BY DEF Preview, IInv, ShownOK
<1>8. ASSUME shown'[c] # None
      PROVE  /\ new \in Texts /\ files[file] \in Texts \cup {Missing}
             /\ Tool[c] = "edit_file" => files[file] # Missing
             /\ shown'[c].diff = LineDiff(TextOf(files[file]), new)
             /\ shown'[c].file = file
  <2>1. Tool[c] \in Writers /\ Resolves(Input[c].path) /\ new # None
    BY <1>1, <1>7, <1>8 DEF Gated, Writers
  <2>2. files[file] \in Texts \cup {Missing}
    BY <2>1 DEF Resolve, Resolves, IInv, FilesOK
  <2>3. new \in Texts /\ (Tool[c] = "edit_file" => files[file] # Missing)
    BY <2>1, <2>2, ResultIsText
  <2>4. shown'[c] = [file |-> file, diff |-> LineDiff(TextOf(files[file]), new)]
    BY <1>7, <1>8
  <2> HIDE DEF file, new
  <2>5. QED
    BY <2>2, <2>3, <2>4
<1>9. ShownOK'
  <2>1. work[c] = "start"
    BY <1>1 DEF IInv, RoundOK
  <2>2. ASSUME NEW d \in Calls
        PROVE  /\ phase'[d] \in {"later", "approval"} => shown'[d] = None
               /\ shown'[d] # None =>
                    /\ \E old \in Texts \cup {Missing} :
                         /\ Result(d, old) \in Texts
                         /\ Tool[d] = "edit_file" => old # Missing
                         /\ shown'[d].diff = LineDiff(TextOf(old), Result(d, old))
                    /\ answer[d] = None => shown'[d].file = Resolve(Input[d].path)
                    /\ \/ work[d] = "temp" /\ ~Stopped(d)
                       \/ work[d] = "looked"
                       \/ work[d] = "ok" /\ Tool[d] \in Writers
                       => at[d] = shown'[d].file
    <3>1. CASE d = c
      BY <1>2, <1>8, <2>1, <3>1
    <3>2. CASE d # c
      BY <1>2, <1>7, <3>2 DEF IInv, ShownOK
    <3>3. QED
      BY <3>1, <3>2
  <2>3. QED
    BY <1>1, <1>7, <2>2 DEF ShownOK, Result, TextOf, Resolve, Stopped
<1>10. QED
  BY <1>3, <1>4, <1>5, <1>6, <1>9 DEF IInv

\* Whoever reads next gets the line: its own prompt's, unless two have crossed.
LEMMA ReadLineStep ==
  ASSUME IInv, NEW c \in Calls, ReadLine(c), UNCHANGED <<fileVars, childVars>>
  PROVE  IInv'
<1>1. /\ phase[c] = "asking" /\ read < lines /\ read' = read + 1
      /\ consent' = [consent EXCEPT ![c] = prompts[read + 1]]
      /\ \/ /\ prompts[read + 1] \in Wanted /\ phase' = [phase EXCEPT ![c] = "running"]
            /\ answer' = answer
         \/ /\ phase' = [phase EXCEPT ![c] = "over"] /\ answer' = [answer EXCEPT ![c] = "denied"]
      /\ UNCHANGED <<todo, round, work, stopped, cancelled, prompts, lines, crossed>>
      /\ UNCHANGED <<files, root, seen, tmp, at, shown, done>> /\ UNCHANGED childVars
  BY DEF ReadLine, plan, contexts, fileVars
<1>2. \A d \in Calls : d # c => phase'[d] = phase[d] /\ answer'[d] = answer[d]
  BY <1>1 DEF IInv, RoundOK
<1>3. /\ \/ phase'[c] = "running" /\ answer'[c] = None /\ prompts[read + 1] \in Wanted
         \/ phase'[c] = "over" /\ answer'[c] = "denied"
      /\ answer[c] = None /\ work[c] = "start"
  BY <1>1 DEF IInv, RoundOK
<1>4. RoundOK'
  <2>1. /\ phase' \in [Calls -> {"later", "approval", "asking", "running", "over"}]
        /\ answer' \in [Calls -> Outcomes \cup {None, "denied", "abandoned"}]
    BY <1>1 DEF IInv, RoundOK
  <2>2. \A i \in DOMAIN todo : \A d \in todo[i] : d \in Calls /\ d # c
    BY <1>1 DEF IInv, RoundOK
  <2>3. ASSUME NEW d \in Calls
        PROVE  /\ phase'[d] \in {"approval", "asking", "running"} => d \in round
               /\ phase'[d] \in {"later", "approval", "asking"} => work[d] = "start"
               /\ phase'[d] = "over" <=> answer'[d] # None
               /\ answer'[d] \in Outcomes => work[d] = answer'[d]
               /\ answer'[d] = "denied" => work[d] = "start"
               /\ answer'[d] = "abandoned" => d \in stopped
    <3>1. CASE d = c
      BY <1>1, <1>3, <3>1, Assumptions DEF IInv, RoundOK, Outcomes
    <3>2. CASE d # c
      BY <1>2, <3>2 DEF IInv, RoundOK
    <3>3. QED
      BY <3>1, <3>2
  <2>4. QED
    BY <1>1, <1>2, <2>1, <2>2, <2>3 DEF IInv, RoundOK
<1>5. /\ read + 1 \in 1..Len(prompts) /\ prompts[read + 1] \in Calls
      /\ lines \in Nat /\ read \in Nat
  BY <1>1 DEF IInv, ConsoleOK
<1>6. ~crossed => prompts[read + 1] = c /\ Len(prompts) = read + 1
                  /\ \A d \in Calls : d # c => phase[d] # "asking"
  BY <1>1 DEF IInv, ConsoleOK
<1>7. ConsoleOK'
  <2>1. consent' \in [Calls -> Calls \cup {None}]
    BY <1>1, <1>5 DEF IInv, ConsoleOK
  <2>2. read' \in Nat /\ read' <= lines
    BY <1>1, <1>5
  <2>3. \A d \in Calls : phase'[d] = "asking" => phase[d] = "asking" /\ d # c
    BY <1>2, <1>3
  <2>4. QED
    BY <1>1, <1>6, <2>1, <2>2, <2>3 DEF IInv, ConsoleOK
<1>8. ConsentOK'
  <2>1. consent'[c] = prompts[read + 1] /\ \A d \in Calls : d # c => consent'[d] = consent[d]
    BY <1>1 DEF IInv, ConsoleOK
  <2>2. ASSUME NEW d \in Calls, Tool[d] \in Gated, LetIn(d)'
        PROVE  consent'[d] \in Wanted /\ (crossed \/ consent'[d] = d)
    <3>1. CASE d = c
      <4>1. prompts[read + 1] \in Wanted
        BY <1>1, <1>3, <2>2, <3>1 DEF LetIn
      <4>2. QED
        BY <1>6, <2>1, <3>1, <4>1
    <3>2. CASE d # c
      BY <1>1, <1>2, <2>1, <2>2, <3>2 DEF IInv, ConsentOK, LetIn
    <3>3. QED
      BY <3>1, <3>2
  <2>3. QED
    BY <1>1, <2>2 DEF ConsentOK, LetIn
<1>9. KindOK' /\ FilesOK' /\ RenamesOK' /\ ChildrenOK'
  BY <1>1, RootTyped, NoToolKeeps
<1>10. ShownOK'
  BY <1>1, <1>2, <1>3, ShownKeeps DEF Stopped
<1>11. QED
  BY <1>4, <1>7, <1>8, <1>9, <1>10 DEF IInv

LEMMA DeadlineStep ==
  ASSUME IInv, NEW c \in Calls, Deadline(c), UNCHANGED <<fileVars, childVars>>
  PROVE  IInv'
<1>1. /\ stopped' = stopped \cup {c}
      /\ UNCHANGED <<todo, round, phase, work, answer, cancelled>>
      /\ UNCHANGED <<prompts, lines, read, consent, crossed>>
      /\ UNCHANGED <<files, root, seen, tmp, at, shown, done>> /\ UNCHANGED childVars
  BY DEF Deadline, plan, callVars, console, fileVars
<1>2. RoundOK' /\ ConsoleOK' /\ ConsentOK'
  BY <1>1 DEF IInv, RoundOK, ConsoleOK, ConsentOK, LetIn
<1>3. KindOK' /\ FilesOK' /\ RenamesOK' /\ ChildrenOK'
  BY <1>1, RootTyped, NoToolKeeps
<1>4. ShownOK'
  BY <1>1, ShownKeeps DEF Stopped
<1>5. QED
  BY <1>2, <1>3, <1>4 DEF IInv

\* doRunTool answers with the tool's outcome, or without it.
LEMMA AnsweringStep ==
  ASSUME IInv, NEW c \in Calls, Collect(c) \/ Abandon(c), UNCHANGED <<fileVars, childVars>>
  PROVE  IInv'
<1>1. PICK what \in Outcomes \cup {"abandoned"} :
        /\ what \in Outcomes => work[c] = what /\ UNCHANGED stopped
        /\ what = "abandoned" => stopped' = stopped \cup {c}
        /\ answer' = [answer EXCEPT ![c] = what]
  BY DEF Collect, Abandon, contexts, Outcomes
<1>2. /\ phase[c] = "running" /\ phase' = [phase EXCEPT ![c] = "over"]
      /\ UNCHANGED <<todo, round, work, cancelled>>
      /\ UNCHANGED <<prompts, lines, read, consent, crossed>>
      /\ UNCHANGED <<files, root, seen, tmp, at, shown, done>> /\ UNCHANGED childVars
  BY DEF Collect, Abandon, plan, contexts, console, fileVars
<1>3. /\ phase'[c] = "over" /\ answer'[c] = what /\ what # None /\ what # "denied"
      /\ \A d \in Calls : d # c => phase'[d] = phase[d] /\ answer'[d] = answer[d]
  BY <1>1, <1>2, Assumptions DEF IInv, RoundOK, Outcomes
<1>4. stopped \subseteq stopped' /\ stopped' \subseteq Calls
      /\ (what = "abandoned" => c \in stopped')
  BY <1>1 DEF IInv, RoundOK, Outcomes
<1>5. RoundOK'
  <2>1. /\ phase' \in [Calls -> {"later", "approval", "asking", "running", "over"}]
        /\ answer' \in [Calls -> Outcomes \cup {None, "denied", "abandoned"}]
    BY <1>1, <1>2 DEF IInv, RoundOK
  <2>2. \A i \in DOMAIN todo : \A d \in todo[i] : d \in Calls /\ d # c
    BY <1>2 DEF IInv, RoundOK
  <2>3. ASSUME NEW d \in Calls
        PROVE  /\ phase'[d] \in {"approval", "asking", "running"} => d \in round
               /\ phase'[d] \in {"later", "approval", "asking"} => work[d] = "start"
               /\ phase'[d] = "over" <=> answer'[d] # None
               /\ answer'[d] \in Outcomes => work[d] = answer'[d]
               /\ answer'[d] = "denied" => work[d] = "start"
               /\ answer'[d] = "abandoned" => d \in stopped'
    <3>1. CASE d = c
      BY <1>1, <1>3, <1>4, <3>1
    <3>2. CASE d # c
      BY <1>3, <1>4, <3>2 DEF IInv, RoundOK
    <3>3. QED
      BY <3>1, <3>2
  <2>4. QED
    BY <1>2, <1>3, <1>4, <2>1, <2>2, <2>3 DEF IInv, RoundOK
<1>6. ConsoleOK'
  <2>1. \A d \in Calls : phase'[d] = "asking" <=> phase[d] = "asking"
    BY <1>2, <1>3
  <2>2. QED
    BY <1>2, <2>1 DEF IInv, ConsoleOK
<1>7. ConsentOK'
  <2>1. \A d \in Calls : LetIn(d)' => LetIn(d)
    BY <1>2, <1>3 DEF LetIn
  <2>2. QED
    BY <1>2, <2>1 DEF IInv, ConsentOK, LetIn
<1>8. KindOK' /\ FilesOK' /\ RenamesOK' /\ ChildrenOK'
  BY <1>2, RootTyped, NoToolKeeps
<1>9. ShownOK'
  BY <1>2, <1>3, <1>4, ShownKeeps DEF Stopped
<1>10. QED
  BY <1>5, <1>6, <1>7, <1>8, <1>9 DEF IInv
-----------------------------------------------------------------------------
(* The invariant, and what follows from it. *)

\* Before the first round nothing was asked, written or spent.
THEOREM InitIInv == Init => IInv
<1> SUFFICES ASSUME Init PROVE IInv
  OBVIOUS
<1>1. /\ todo \in Scenarios /\ round = {} /\ stopped = {} /\ cancelled = FALSE
      /\ phase = [c \in Calls |-> "later"] /\ work = [c \in Calls |-> "start"]
      /\ answer = [c \in Calls |-> None] /\ consent = [c \in Calls |-> None]
      /\ prompts = <<>> /\ lines = 0 /\ read = 0 /\ crossed = FALSE
  BY DEF Init, RoundInit
<1>2. /\ files \in Contents /\ root \in Roots /\ done = <<>>
      /\ seen = [c \in Calls |-> None] /\ tmp = [c \in Calls |-> None]
      /\ at = [c \in Calls |-> None] /\ shown = [c \in Calls |-> None]
  BY DEF Init, FileInit
<1>3. RoundOK
  <2>1. /\ todo \in Seq(SUBSET Calls)
        /\ \A i, j \in DOMAIN todo : i # j => todo[i] \cap todo[j] = {}
    BY <1>1, Assumptions
  <2>2. \A i \in DOMAIN todo : \A c \in todo[i] : c \in Calls
    BY <2>1
  <2>3. cancelled \in BOOLEAN
    BY <1>1
  <2>4. QED
    BY <1>1, <2>1, <2>2, <2>3, Assumptions DEF RoundOK, States, Outcomes
<1>4. ConsoleOK
  <2>1. crossed \in BOOLEAN
    BY <1>1
  <2>2. QED
    BY <1>1, <2>1 DEF ConsoleOK
<1>5. ConsentOK /\ KindOK
  BY <1>1, Assumptions DEF ConsentOK, KindOK, LetIn
<1>6. FilesOK
  BY <1>1, <1>2, FileAssumption, StringsAreTexts DEF FilesOK, FileAssumption
<1>7. RenamesOK
  BY <1>1, <1>2 DEF RenamesOK, RenamedBy
<1>8. ShownOK
  BY <1>1, <1>2 DEF ShownOK
<1>9. ChildrenOK
  <2>1. /\ ParentTurns \in Nat /\ ParentBudget \in Nat /\ MaxChildTurns \in Nat \ {0}
        /\ Replies \subseteq Nat /\ spent \in Nat
        /\ \E most \in Replies : \A n \in Replies : n <= most
    BY SubAgentAssumption DEF SubAgentAssumption, Init, SubAgentInit
  <2>2. ChildTurns \in Nat \ {0} /\ Left \in Nat \ {0}
    BY <2>1 DEF ChildTurns, SmallerOf, Left
  <2>3. LargestReply \in Nat
    BY <2>1 DEF LargestReply
  <2>4. child = [c \in Calls |-> [turns |-> 0, tokens |-> 0, final |-> FALSE]]
    BY DEF Init, SubAgentInit
  <2>5. \A c \in Calls : child[c].turns = 0 /\ child[c].tokens = 0
    BY <2>4
  <2>6. child \in [Calls -> [turns : Nat, tokens : Nat, final : BOOLEAN]]
    BY <2>4
  <2>7. QED
    BY <1>1, <2>1, <2>2, <2>3, <2>5, <2>6 DEF ChildrenOK
<1>10. QED
  BY <1>3, <1>4, <1>5, <1>6, <1>7, <1>8, <1>9 DEF IInv

\* No step of the round, of a tool, of the user or of a sub-agent leaves the invariant.
THEOREM StepIInv == IInv /\ [Next]_vars => IInv'
<1> SUFFICES ASSUME IInv, [Next]_vars PROVE IInv'
  OBVIOUS
<1>1. CASE (BeginRound \/ UserTypes \/ Cancel) /\ UNCHANGED <<fileVars, childVars>>
  BY <1>1, BeginRoundStep, UserSteps
<1>2. ASSUME NEW r \in Roots \ {root}, Cd(r), UNCHANGED childVars PROVE IInv'
  BY <1>2, UserSteps
<1>3. ASSUME NEW c \in Calls, Asking(c) /\ UNCHANGED childVars PROVE IInv'
  BY <1>3, NeedsNoApprovalStep, PreviewStep, ReadLineStep DEF Asking
<1>4. ASSUME NEW c \in Calls, \/ Deadline(c) /\ UNCHANGED <<fileVars, childVars>>
                              \/ Answering(c)
      PROVE IInv'
  BY <1>4, DeadlineStep, AnsweringStep DEF Answering
<1>5. ASSUME NEW c \in Calls, ToolStep(c) PROVE IInv'
  BY <1>5, FileStepKeeps, SubAgentStepKeeps DEF ToolStep
<1>6. ASSUME NEW c \in Calls, CommandExits(c), UNCHANGED childVars PROVE IInv'
  BY <1>6, CommandStep
<1>7. CASE UNCHANGED vars
  <2>1. /\ UNCHANGED <<todo, round, phase, work, answer, stopped, cancelled>>
        /\ UNCHANGED <<prompts, lines, read, consent, crossed>>
        /\ UNCHANGED <<files, root, seen, tmp, at, shown, done>> /\ UNCHANGED childVars
    BY <1>7 DEF vars, plan, callVars, contexts, console, fileVars
  <2>2. RoundOK' /\ ConsoleOK' /\ ConsentOK'
    BY <2>1 DEF IInv, RoundOK, ConsoleOK, ConsentOK, LetIn
  <2>3. KindOK' /\ FilesOK' /\ RenamesOK' /\ ChildrenOK'
    BY <2>1, RootTyped, NoToolKeeps
  <2>4. ShownOK'
    BY <2>1, ShownKeeps DEF Stopped
  <2>5. QED
    BY <2>2, <2>3, <2>4 DEF IInv
<1>8. QED
  BY <1>1, <1>2, <1>3, <1>4, <1>5, <1>6, <1>7 DEF Next

LEMMA Invariant == Spec => []IInv
BY InitIInv, StepIInv, PTL DEF Spec
-----------------------------------------------------------------------------
(* The walks. *)

\* The lines of a walk's hits and their names.
LinesOf(s) == {s[k][2] : k \in DOMAIN s}
AllOf(s, name) == \A k \in DOMAIN s : s[k][1] = name

Matching(content, old) == {k \in DOMAIN content : content[k] = old}
InOrder(content, old) ==
  FlattenSeq([k \in DOMAIN content |-> IF content[k] = old THEN <<k>> ELSE <<>>])
Cut(hits, limit, name) == [k \in 1 .. SmallerOf(Len(hits), limit) |-> <<name, hits[k]>>]

LEMMA HitsFlattened ==
  ASSUME NEW S, NEW content \in Seq(S), NEW old
  PROVE  /\ InOrder(content, old) \in Seq(Nat)
         /\ Elements(InOrder(content, old)) = Matching(content, old)
<1> DEFINE p == [k \in DOMAIN content |-> IF content[k] = old THEN <<k>> ELSE <<>>]
           n == Len(content)
<1>1. n \in Nat /\ DOMAIN content = 1..n
  OBVIOUS
<1>2. ASSUME NEW k \in 1..n
      PROVE  /\ p[k] = IF content[k] = old THEN <<k>> ELSE <<>>
             /\ p[k] \in Seq(Nat)
             /\ Elements(p[k]) = IF content[k] = old THEN {k} ELSE {}
  <2>1. /\ <<k>> \in Seq(Nat) /\ <<>> \in Seq(Nat)
        /\ DOMAIN <<k>> = {1} /\ <<k>>[1] = k /\ DOMAIN <<>> = {}
    OBVIOUS
  <2>2. Elements(<<k>>) = {k} /\ Elements(<<>>) = {}
    BY <2>1 DEF Elements
  <2>3. QED
    BY <1>1, <2>1, <2>2
<1>3. p \in Seq(Seq(Nat)) /\ Len(p) = n
  <2>1. p \in [1..n -> Seq(Nat)]
    <3>1. p = [k \in 1..n |-> p[k]]
      BY <1>1
    <3> HIDE DEF p, n
    <3>2. QED
      BY <1>2, <3>1
  <2> HIDE DEF p, n
  <2>2. QED
    BY <1>1, <2>1, SeqDef, LenProperties
<1> HIDE DEF p
<1>4. Elements(FlattenSeq(p)) = ElementsBelow(p, n)
  BY <1>3, FlattenElements
<1>5. ElementsBelow(p, n) = {k \in DOMAIN content : content[k] = old}
  <2>1. \A k \in 1..n : Elements(p[k]) = IF content[k] = old THEN {k} ELSE {}
    BY <1>2
  <2> HIDE DEF n
  <2>3. ASSUME NEW k \in ElementsBelow(p, n) PROVE k \in {i \in 1..n : content[i] = old}
    <3>1. PICK i \in 1..n : k \in Elements(p[i])
      BY DEF ElementsBelow
    <3>2. content[i] = old
      BY <2>1, <3>1
    <3>3. Elements(p[i]) = {i}
      BY <2>1, <3>2
    <3>4. k = i
      BY <3>1, <3>3
    <3>5. QED
      BY <3>2, <3>4
  <2>4. ASSUME NEW k \in 1..n, content[k] = old PROVE k \in ElementsBelow(p, n)
    <3>1. k \in Elements(p[k])
      BY <2>1, <2>4
    <3>2. QED
      BY <3>1 DEF ElementsBelow
  <2>5. QED
    BY <1>1, <2>3, <2>4 DEF n
<1>6. FlattenSeq(p) \in Seq(Nat)
  BY <1>3, FlattenType
<1>7. QED
  BY <1>4, <1>5, <1>6 DEF p, InOrder, Matching

\* The first matches, as far as the limit goes.
LEMMA CutFinds ==
  ASSUME NEW S, NEW V, NEW hits \in Seq(S), NEW limit \in Nat, NEW name \in V
  PROVE  LET now == Cut(hits, limit, name) IN
         /\ now \in Seq(V \X S) /\ Len(now) <= limit
         /\ AllOf(now, name) /\ LinesOf(now) \subseteq Elements(hits)
         /\ Len(now) = limit \/ LinesOf(now) = Elements(hits)
<1> DEFINE now == Cut(hits, limit, name)
           m == Len(hits)
           n == SmallerOf(m, limit)
<1>1. /\ n \in Nat /\ n <= limit /\ n <= m /\ m \in Nat
      /\ n = m \/ n = limit
      /\ DOMAIN hits = 1..m
  BY DEF SmallerOf
<1>2. now = [k \in 1..n |-> <<name, hits[k]>>]
  BY DEF Cut
<1>0. \A k \in 1..m : hits[k] \in S
  OBVIOUS
<1> HIDE DEF n, m, now
<1>3. ASSUME NEW k \in 1..n
      PROVE  hits[k] \in S /\ hits[k] \in Elements(hits)
  <2>1. k \in 1..m
    BY <1>1
  <2>2. QED
    BY <1>0, <1>1, <2>1 DEF Elements
<1>4. ASSUME NEW k \in 1..n
      PROVE  now[k] = <<name, hits[k]>> /\ now[k][1] = name /\ now[k][2] = hits[k]
  <2>1. now[k] = <<name, hits[k]>>
    BY <1>2
  <2>2. QED
    BY <2>1
<1>5. now \in [1..n -> V \X S]
  BY <1>2, <1>3
<1>6. ASSUME NEW W, NEW s \in [1..n -> W] PROVE s \in Seq(W) /\ Len(s) = n /\ DOMAIN s = 1..n
  <2>1. n \in Nat
    BY <1>1
  <2>2. QED
    BY <2>1, SeqDef, LenProperties
<1>7. now \in Seq(V \X S) /\ Len(now) = n /\ DOMAIN now = 1..n
  BY <1>5, <1>6
<1>8. LinesOf(now) \subseteq Elements(hits)
  BY <1>3, <1>4, <1>7 DEF LinesOf
<1>9. n = m => Elements(hits) \subseteq LinesOf(now)
  BY <1>1, <1>4, <1>7 DEF Elements, LinesOf
<1>10. AllOf(now, name)
  BY <1>4, <1>7 DEF AllOf
<1>11. QED
  BY <1>1, <1>7, <1>8, <1>9, <1>10 DEF now

\* searchFile keeps what matches.
LEMMA SearchFinds ==
  ASSUME NEW c \in Calls, NEW name \in FileNames, NEW limit \in Nat \ {0},
         NEW content \in Texts \cup {Missing}, content = files[<<at[c][1], name>>]
  PROVE  LET now == SearchFile(c, name, limit)
             got == LinesOf(now)
         IN /\ now \in Seq(FileNames \X Nat) /\ Len(now) <= limit
            /\ AllOf(now, name)
            /\ name \in Denied => got = {}
            /\ name \notin Denied /\ content # Missing =>
                 /\ got \subseteq Hits(c, <<at[c][1], name>>)
                 /\ got = Hits(c, <<at[c][1], name>>) \/ Len(now) = limit
<1> DEFINE now == SearchFile(c, name, limit)
           got == LinesOf(now)
           hits == InOrder(content, Input[c].old)
<1>1. CASE name \in Denied \/ content = Missing
  <2>1. now = <<>>
    BY <1>1 DEF SearchFile
  <2>2. now \in Seq(FileNames \X Nat) /\ Len(now) = 0 /\ AllOf(now, name) /\ got = {}
    BY <2>1 DEF LinesOf, AllOf
  <2>3. QED
    BY <1>1, <2>2
<1>2. CASE name \notin Denied /\ content # Missing
  <2>1. hits \in Seq(Nat) /\ Elements(hits) = Matching(content, Input[c].old)
    <3>1. content \in Seq(Strings)
      BY <1>2 DEF Texts
    <3>2. QED
      BY <3>1, HitsFlattened
  <2>2. now = Cut(hits, limit, name)
    BY <1>2 DEF SearchFile, Cut, InOrder
  <2>3. Elements(hits) = Hits(c, <<at[c][1], name>>)
    BY <2>1 DEF Hits, Matching
  <2> HIDE DEF hits, now
  <2>4. /\ now \in Seq(FileNames \X Nat) /\ Len(now) <= limit
        /\ AllOf(now, name) /\ LinesOf(now) \subseteq Elements(hits)
        /\ Len(now) = limit \/ LinesOf(now) = Elements(hits)
    <3>1. limit \in Nat /\ name \in FileNames
      OBVIOUS
    <3> DEFINE N == Nat
    <3>4. hits \in Seq(N)
      BY <2>1
    <3> HIDE DEF got, N
    <3>2. LET s == Cut(hits, limit, name) IN
            /\ s \in Seq(FileNames \X N) /\ Len(s) <= limit
            /\ AllOf(s, name) /\ LinesOf(s) \subseteq Elements(hits)
            /\ Len(s) = limit \/ LinesOf(s) = Elements(hits)
      BY <3>1, <3>4, CutFinds
    <3>3. QED
      BY <2>2, <3>2 DEF N
  <2>5. QED
    BY <1>2, <2>3, <2>4 DEF now
<1>3. QED
  BY <1>1, <1>2

\* A call's walk is as it was if its own state is and every file still undisturbed is as it
\* was.
LEMMA WalkStays ==
  ASSUME NEW c \in Calls, WalkOK(c),
         work'[c] = work[c], at'[c] = at[c], seen'[c] = seen[c], found'[c] = found[c],
         \A f : Undisturbed(f)' => Undisturbed(f) /\ files'[f] = files[f]
  PROVE  WalkOK(c)'
<1>1. ASSUME NEW n \in FileNames PROVE Passed(c, n)'
  <2> DEFINE f == <<at[c][1], n>>
  <2>1. Passed(c, n)
    BY DEF WalkOK
  <2>2. Got(c, n)' = Got(c, n)
    BY DEF Got
  <2>3. Undisturbed(f)' => Undisturbed(f) /\ files'[f] = files[f] /\ Hits(c, f)' = Hits(c, f)
    BY DEF Hits
  <2>4. QED
    BY <2>1, <2>2, <2>3 DEF Passed
<1>2. ASSUME NEW n \in FileNames, Undisturbed(<<at[c][1], n>>)'
      PROVE  n \in seen[c] <=> files'[<<at[c][1], n>>] # Missing
  BY <1>2 DEF WalkOK
<1>3. QED
  BY <1>1, <1>2 DEF WalkOK

\* One call moves; where it is a search, that is its own affair.
LEMMA OthersWalk ==
  ASSUME IInv, WalksOK, NEW c \in Calls, DOMAIN found' = Calls,
         \A d \in Calls : d # c => /\ work'[d] = work[d] /\ at'[d] = at[d]
                                   /\ seen'[d] = seen[d] /\ found'[d] = found[d],
         \A f : Undisturbed(f)' => Undisturbed(f) /\ files'[f] = files[f],
         Tool[c] = "search_files" =>
           /\ work'[c] = "start" => found'[c] = <<>>
           /\ work'[c] \in {"walking", "ok"} => WalkOK(c)'
  PROVE  WalksOK'
<1>1. ASSUME NEW d \in Calls, Tool[d] = "search_files"
      PROVE  /\ work'[d] = "start" => found'[d] = <<>>
             /\ work'[d] \in {"walking", "ok"} => WalkOK(d)'
  <2>1. CASE d = c
    BY <1>1, <2>1
  <2>2. CASE d # c
    <3>1. work'[d] = work[d] /\ found'[d] = found[d] /\ at'[d] = at[d] /\ seen'[d] = seen[d]
      BY <2>2
    <3>2. work[d] = "start" => found[d] = <<>>
      BY <1>1 DEF WalksOK
    <3>3. work[d] \in {"walking", "ok"} => WalkOK(d)
      BY <1>1 DEF WalksOK
    <3>4. WalkOK(d) => WalkOK(d)'
      BY <3>1, WalkStays
    <3>5. QED
      BY <3>1, <3>2, <3>3, <3>4
  <2>3. QED
    BY <2>1, <2>2
<1>2. QED
  BY <1>1 DEF WalksOK

\* What is undisturbed is told by the calls that have renamed.
LEMMA NoRename ==
  ASSUME IInv, UNCHANGED <<files, done>>,
         \A d \in Calls : work[d] = "ok" /\ Tool[d] \in Writers => at'[d] = at[d]
  PROVE  \A f : Undisturbed(f)' => Undisturbed(f) /\ files'[f] = files[f]
<1>1. ASSUME NEW i \in DOMAIN done PROVE at'[done[i].call] = at[done[i].call]
  <2>1. done[i].call \in Calls /\ Tool[done[i].call] \in Writers
    BY RenameIsOfAWriter
  <2>2. i \in RenamedBy(done[i].call)
    BY DEF RenamedBy
  <2>3. work[done[i].call] = "ok"
    BY <2>1, <2>2 DEF IInv, RenamesOK
  <2>4. QED
    BY <2>1, <2>3
<1>2. QED
  BY <1>1 DEF Undisturbed

\* A step that finds nothing and moves no walk.
LEMMA NoWalk ==
  ASSUME IInv, WalksOK, UNCHANGED <<files, seen, at, found, done>>,
         \A d \in Calls : Tool[d] = "search_files" /\ work'[d] \in {"start", "walking", "ok"} =>
                            work'[d] = work[d]
  PROVE  WalksOK'
<1>1. \A f : Undisturbed(f)' => Undisturbed(f) /\ files'[f] = files[f]
  BY DEF Undisturbed
<1>2. ASSUME NEW d \in Calls, Tool[d] = "search_files"
      PROVE  /\ work'[d] = "start" => found'[d] = <<>>
             /\ work'[d] \in {"walking", "ok"} => WalkOK(d)'
  <2>1. work[d] = "start" => found[d] = <<>>
    BY <1>2 DEF WalksOK
  <2>2. work[d] \in {"walking", "ok"} => WalkOK(d)
    BY <1>2 DEF WalksOK
  <2>3. work'[d] = work[d] /\ WalkOK(d) => WalkOK(d)'
    BY <1>1, WalkStays
  <2>4. QED
    BY <1>2, <2>1, <2>2, <2>3
<1>3. QED
  BY <1>2 DEF WalksOK

LEMMA Names ==
  Cardinality(FileNames) \in Nat \ {0} /\ FileNames = 1..Cardinality(FileNames) /\ 1 \in FileNames
<1> DEFINE N == Cardinality(FileNames)
<1>1. N \in Nat /\ FileNames = 1..N /\ FileNames # {}
  BY FileAssumption, FS_CardinalityType DEF FileAssumption
<1> HIDE DEF N
<1>2. N # 0
  BY <1>1
<1>3. 1 \in 1..N
  BY <1>1, <1>2
<1>4. QED
  BY <1>1, <1>2, <1>3 DEF N

LEMMA InitWalks == Init => WalksOK
BY DEF Init, RoundInit, FileInit, WalksOK

\* The walk's first step: it reads the names.
LEMMA WalkWalks ==
  ASSUME IInv, WalksOK, NEW c \in Calls, Walk(c)
  PROVE  WalksOK'
<1>1. CASE Fails(c)
  <2>1. work'[c] = "error" /\ (\A d \in Calls : d # c => work'[d] = work[d])
    BY <1>1, WorksFrame DEF Fails
  <2>2. UNCHANGED <<files, seen, at, found, done>>
    BY <1>1 DEF Fails, perCall
  <2>3. QED
    BY <2>1, <2>2, NoWalk
<1>2. CASE /\ Works(c, "walking")
           /\ at' = [at EXCEPT ![c] = <<root, 1>>]
           /\ seen' = [seen EXCEPT ![c] = {n \in FileNames : files[<<root, n>>] # Missing}]
           /\ UNCHANGED <<files, root, tmp, found, shown, done>>
  <2>1. work[c] = "start" /\ root \in Roots /\ DOMAIN at = Calls /\ DOMAIN seen = Calls
    BY RootTyped DEF Walk, IInv, FilesOK
  <2>2. work'[c] = "walking" /\ (\A d \in Calls : d # c => work'[d] = work[d])
    BY <1>2, WorksFrame
  <2>3. /\ at'[c] = <<root, 1>> /\ seen'[c] = {n \in FileNames : files[<<root, n>>] # Missing}
        /\ found'[c] = found[c]
        /\ \A d \in Calls : d # c => at'[d] = at[d] /\ seen'[d] = seen[d] /\ found'[d] = found[d]
    BY <1>2, <2>1
  <2>4. \A f : Undisturbed(f)' => Undisturbed(f) /\ files'[f] = files[f]
    BY <1>2, <2>1, <2>3, NoRename
  <2>5. ASSUME Tool[c] = "search_files" PROVE WalkOK(c)'
    <3>1. found'[c] = <<>>
      BY <2>1, <2>3, <2>5 DEF WalksOK
    <3>2. ASSUME NEW n \in FileNames PROVE ~(n < at'[c][2])
      <4>1. n >= 1 /\ n \in Nat
        BY Names
      <4>2. at'[c][2] = 1
        BY <2>3
      <4>3. QED
        BY <4>1, <4>2
    <3>3. \A n \in FileNames : Passed(c, n)'
      BY <3>2 DEF Passed
    <3>4. \A n \in FileNames : n \in seen'[c] <=> files'[<<at'[c][1], n>>] # Missing
      BY <1>2, <2>3
    <3>5. at'[c] \in Roots \X Nat /\ at'[c][2] = 1 /\ 1 \in 1..Cardinality(FileNames) + 1
      BY <2>1, <2>3, Names
    <3>6. found'[c] \in Seq(FileNames \X Nat) /\ Len(found'[c]) = 0 /\ DOMAIN found'[c] = {}
      BY <3>1
    <3>7. MatchCap \in Nat /\ MatchCap > 0 /\ 1 \in FileNames
      BY FileAssumption, Names DEF FileAssumption
    <3>8. QED
      BY <2>2, <3>3, <3>4, <3>5, <3>6, <3>7 DEF WalkOK
  <2>6. DOMAIN found' = Calls
    BY <1>2 DEF WalksOK
  <2>7. QED
    BY <2>2, <2>3, <2>4, <2>5, <2>6, OthersWalk
<1>3. QED
  BY <1>1, <1>2 DEF Walk

\* What a walk got of a file when it appends what one file gave.
GotIn(s, n) == {s[k][2] : k \in {k \in DOMAIN s : s[k][1] = n}}
AllBelow(s, name) == \A k \in DOMAIN s : s[k][1] \in Nat /\ s[k][1] < name

LEMMA GotMore ==
  ASSUME NEW V, NEW s \in Seq(V), NEW t \in Seq(V), NEW name \in Nat,
         AllBelow(s, name), AllOf(t, name)
  PROVE  /\ AllBelow(s \o t, name + 1)
         /\ GotIn(s \o t, name) = LinesOf(t)
         /\ \A n : n # name => GotIn(s \o t, n) = GotIn(s, n)
<1>1. /\ Len(s) \in Nat /\ Len(t) \in Nat /\ DOMAIN s = 1..Len(s) /\ DOMAIN t = 1..Len(t)
      /\ DOMAIN (s \o t) = 1..Len(s) + Len(t)
  OBVIOUS
<1>2. ASSUME NEW k \in DOMAIN s PROVE k \in DOMAIN (s \o t) /\ (s \o t)[k] = s[k]
  OBVIOUS
<1>3. ASSUME NEW k \in DOMAIN t
      PROVE  k + Len(s) \in DOMAIN (s \o t) /\ (s \o t)[k + Len(s)] = t[k]
  OBVIOUS
<1>4. ASSUME NEW k \in DOMAIN (s \o t)
      PROVE  \/ k \in DOMAIN s /\ (s \o t)[k] = s[k]
             \/ k - Len(s) \in DOMAIN t /\ (s \o t)[k] = t[k - Len(s)]
  <2>1. CASE k <= Len(s)
    <3>1. k \in DOMAIN s
      BY <1>1, <2>1
    <3>2. QED
      BY <1>2, <3>1
  <2>2. CASE ~(k <= Len(s))
    <3>1. k - Len(s) \in DOMAIN t /\ (k - Len(s)) + Len(s) = k
      BY <1>1, <2>2
    <3>2. QED
      BY <1>3, <3>1
  <2>3. QED
    BY <2>1, <2>2
<1> DEFINE u == s \o t
<1>5. ASSUME NEW k \in DOMAIN u PROVE u[k][1] \in Nat /\ u[k][1] < name + 1
  <2>1. CASE k \in DOMAIN s /\ u[k] = s[k]
    <3>1. s[k][1] \in Nat /\ s[k][1] < name
      BY <2>1 DEF AllBelow
    <3>2. QED
      BY <2>1, <3>1
  <2>2. CASE k - Len(s) \in DOMAIN t /\ u[k] = t[k - Len(s)]
    <3>1. t[k - Len(s)][1] = name
      BY <2>2 DEF AllOf
    <3>2. QED
      BY <2>2, <3>1
  <2>3. QED
    BY <1>4, <2>1, <2>2
<1>6. ASSUME NEW n, n # name PROVE GotIn(u, n) = GotIn(s, n)
  <2>1. ASSUME NEW k \in DOMAIN u, u[k][1] = n PROVE k \in DOMAIN s /\ u[k] = s[k]
    BY <1>4, <1>6, <2>1 DEF AllOf
  <2>2. ASSUME NEW k \in DOMAIN s PROVE k \in DOMAIN u /\ u[k] = s[k]
    BY <1>2
  <2> HIDE DEF u
  <2>3. QED
    BY <2>1, <2>2 DEF GotIn
<1>7. GotIn(u, name) = LinesOf(t)
  <2>1. ASSUME NEW k \in DOMAIN u, u[k][1] = name
        PROVE  k - Len(s) \in DOMAIN t /\ u[k] = t[k - Len(s)]
    <3>1. ASSUME k \in DOMAIN s, u[k] = s[k] PROVE FALSE
      <4>1. name < name
        BY <2>1, <3>1 DEF AllBelow
      <4>2. QED
        BY <4>1
    <3>2. QED
      BY <1>4, <3>1
  <2>2. ASSUME NEW k \in DOMAIN t
        PROVE  k + Len(s) \in DOMAIN u /\ u[k + Len(s)] = t[k] /\ u[k + Len(s)][1] = name
    BY <1>3 DEF AllOf
  <2> HIDE DEF u
  <2>3. GotIn(u, name) \subseteq LinesOf(t)
    BY <2>1 DEF GotIn, LinesOf
  <2>4. LinesOf(t) \subseteq GotIn(u, name)
    BY <2>2 DEF GotIn, LinesOf
  <2>5. QED
    BY <2>3, <2>4
<1>8. AllBelow(u, name + 1)
  BY <1>5 DEF AllBelow
<1>9. QED
  BY <1>6, <1>7, <1>8

\* What one visit appends.
LEMMA VisitFinds ==
  ASSUME IInv, NEW c \in Calls, WalkOK(c), work[c] = "walking", NEW now,
         now = IF at[c][2] \in seen[c] THEN SearchFile(c, at[c][2], MatchCap - Len(found[c]))
               ELSE <<>>
  PROVE  LET name == at[c][2]
             file == <<at[c][1], name>>
         IN /\ now \in Seq(FileNames \X Nat) /\ Len(now) <= MatchCap - Len(found[c])
            /\ AllOf(now, name) /\ (name \in Denied => LinesOf(now) = {})
            /\ name \notin Denied /\ name \in seen[c] /\ files[file] # Missing =>
                 /\ LinesOf(now) \subseteq Hits(c, file)
                 /\ LinesOf(now) = Hits(c, file) \/ Len(now) = MatchCap - Len(found[c])
<1> DEFINE name == at[c][2]
           file == <<at[c][1], name>>
           limit == MatchCap - Len(found[c])
<1>1. name \in FileNames /\ at[c][1] \in Roots
  BY DEF WalkOK
<1>2. limit \in Nat \ {0}
  BY FileAssumption DEF WalkOK, FileAssumption
<1>3. files[file] \in Texts \cup {Missing}
  BY <1>1 DEF IInv, FilesOK
<1>4. CASE name \in seen[c]
  <2>1. now = SearchFile(c, name, limit)
    BY <1>4
  <2> HIDE DEF name, limit
  <2>2. QED
    BY <1>1, <1>2, <1>3, <1>4, <2>1, SearchFinds DEF name, limit
<1>5. CASE name \notin seen[c]
  <2>1. now = <<>>
    BY <1>5
  <2>2. now \in Seq(FileNames \X Nat) /\ Len(now) = 0 /\ DOMAIN now = {}
    <3>1. ASSUME NEW V PROVE <<>> \in Seq(V) /\ Len(<<>>) = 0 /\ DOMAIN <<>> = {}
      OBVIOUS
    <3> HIDE DEF name, file, limit
    <3>2. QED
      BY <2>1, <3>1
  <2>3. AllOf(now, name) /\ LinesOf(now) = {}
    BY <2>2 DEF LinesOf, AllOf
  <2>4. QED
    BY <1>2, <1>5, <2>2, <2>3
<1>6. QED
  BY <1>4, <1>5

\* A search's visit: the file joins those the walk has passed.
LEMMA SearchStep ==
  ASSUME IInv, WalksOK, NEW c \in Calls, Visit(c), Tool[c] = "search_files"
  PROVE  WalkOK(c)'
<1> DEFINE name == at[c][2]
           file == <<at[c][1], name>>
           limit == MatchCap - Len(found[c])
           now == IF name \in seen[c] THEN SearchFile(c, name, limit) ELSE <<>>
           more == found[c] \o now
           N == Cardinality(FileNames)
<1>1. work[c] = "walking" /\ WalkOK(c) /\ DOMAIN found = Calls /\ DOMAIN at = Calls
  BY DEF Visit, WalksOK, IInv, FilesOK
<1>2. /\ now \in Seq(FileNames \X Nat) /\ Len(now) <= limit
      /\ AllOf(now, name) /\ (name \in Denied => LinesOf(now) = {})
      /\ name \notin Denied /\ name \in seen[c] /\ files[file] # Missing =>
           /\ LinesOf(now) \subseteq Hits(c, file)
           /\ LinesOf(now) = Hits(c, file) \/ Len(now) = limit
  BY <1>1, VisitFinds
<1>3. /\ found' = [found EXCEPT ![c] = more]
      /\ at' = [at EXCEPT ![c] = <<at[c][1], name + 1>>]
      /\ Works(c, IF Len(more) >= MatchCap \/ name = N THEN "ok" ELSE "walking")
      /\ UNCHANGED <<files, seen, done>>
  BY DEF Visit, Matches, Walks
<1>4. /\ name \in FileNames /\ name \in Nat /\ N \in Nat /\ name <= N
      /\ MatchCap \in Nat /\ limit \in Nat \ {0}
  BY <1>1, Names, FileAssumption DEF WalkOK, FileAssumption
<1>5. found[c] \in Seq(FileNames \X Nat) /\ Len(found[c]) \in Nat /\ AllBelow(found[c], name)
  <2>1. found[c] \in Seq(FileNames \X Nat)
    BY <1>1 DEF WalkOK
  <2>2. ASSUME NEW k \in DOMAIN found[c] PROVE found[c][k][1] \in Nat /\ found[c][k][1] < name
    <3>1. found[c][k] \in FileNames \X Nat
      BY <2>1, ElementOfSeq
    <3>2. found[c][k][1] \in Nat
      BY <3>1, Names
    <3>3. QED
      BY <1>1, <3>2 DEF WalkOK
  <2>3. QED
    BY <2>1, <2>2 DEF AllBelow
<1> HIDE DEF now
<1>6. /\ AllBelow(more, name + 1) /\ GotIn(more, name) = LinesOf(now)
      /\ \A n : n # name => GotIn(more, n) = GotIn(found[c], n)
  BY <1>2, <1>4, <1>5, GotMore
<1>7. more \in Seq(FileNames \X Nat) /\ Len(more) = Len(found[c]) + Len(now) /\ Len(now) \in Nat
  BY <1>2, <1>5, ConcatProperties
<1>8. /\ found'[c] = more /\ at'[c] = <<at[c][1], name + 1>> /\ seen'[c] = seen[c]
      /\ at'[c][1] = at[c][1] /\ at'[c][2] = name + 1
  BY <1>1, <1>3
<1>9. work'[c] = IF Len(more) >= MatchCap \/ name = N THEN "ok" ELSE "walking"
  BY <1>3, WorksFrame
<1> HIDE DEF more
<1>10. Len(more) <= MatchCap /\ (Len(now) = limit => Len(more) = MatchCap)
  BY <1>2, <1>4, <1>5, <1>7
<1>11. \A f : Undisturbed(f)' => Undisturbed(f) /\ files'[f] = files[f]
  <2>1. \A d \in Calls : work[d] = "ok" /\ Tool[d] \in Writers => at'[d] = at[d]
    BY <1>1, <1>3
  <2>2. QED
    BY <1>3, <2>1, NoRename
<1>12. ASSUME NEW n \in FileNames PROVE Passed(c, n)'
  <2> DEFINE f == <<at[c][1], n>>
  <2> SUFFICES ASSUME n < name + 1, Undisturbed(f)', files[f] # Missing
               PROVE  /\ GotIn(more, n) \subseteq Hits(c, f) /\ (n \in Denied => GotIn(more, n) = {})
                      /\ n \notin Denied => GotIn(more, n) = Hits(c, f) \/ Len(more) = MatchCap
    <3>1. Got(c, n)' = GotIn(more, n)
      BY <1>8 DEF Got, GotIn
    <3>2. Hits(c, f)' = Hits(c, f) /\ files'[f] = files[f]
      BY <1>3 DEF Hits
    <3>3. QED
      BY <1>8, <3>1, <3>2 DEF Passed
  <2>1. Undisturbed(f)
    BY <1>8, <1>11 DEF Undisturbed
  <2>2. CASE n = name
    <3>1. n \in seen[c]
      BY <1>1, <2>1 DEF WalkOK
    <3>2. QED
      BY <1>2, <1>6, <1>10, <2>2, <3>1
  <2>3. CASE n # name
    <3>1. n < name
      BY <1>4, <2>3, Names
    <3>2. Passed(c, n) /\ Len(found[c]) < MatchCap
      BY <1>1 DEF WalkOK
    <3>3. Len(found[c]) # MatchCap
      BY <1>4, <1>5, <3>2
    <3>4. GotIn(more, n) = Got(c, n)
      BY <1>6, <2>3 DEF Got, GotIn
    <3>5. QED
      BY <2>1, <3>1, <3>2, <3>3, <3>4 DEF Passed
  <2>4. QED
    BY <2>2, <2>3
<1>13. /\ at'[c] \in Roots \X Nat /\ at'[c][2] \in 1..N + 1
       /\ work'[c] = "walking" => Len(found'[c]) < MatchCap /\ at'[c][2] \in FileNames
       /\ work'[c] = "ok" => Len(found'[c]) = MatchCap \/ at'[c][2] = N + 1
  <2>1. at[c][1] \in Roots /\ name + 1 \in Nat
    BY <1>1, <1>4 DEF WalkOK
  <2>2. at'[c] \in Roots \X Nat /\ name + 1 \in 1..N + 1
    BY <1>4, <1>8, <2>1
  <2>3. Len(more) \in Nat
    BY <1>5, <1>7
  <2>4. ~(Len(more) >= MatchCap) /\ name # N => Len(more) < MatchCap /\ name + 1 \in 1..N
    BY <1>4, <2>3
  <2>5. Len(more) >= MatchCap => Len(more) = MatchCap
    BY <1>4, <1>10, <2>3
  <2>6. QED
    BY <1>8, <1>9, <2>2, <2>4, <2>5, Names
<1>14. ASSUME NEW n \in FileNames
       PROVE  Undisturbed(<<at[c][1], n>>)' => (n \in seen[c] <=> files[<<at[c][1], n>>] # Missing)
  <2> DEFINE f == <<at[c][1], n>>
  <2>1. Undisturbed(f) => (n \in seen[c] <=> files[f] # Missing)
    BY <1>1 DEF WalkOK
  <2>2. Undisturbed(f)' => Undisturbed(f)
    BY <1>8, <1>11 DEF Undisturbed
  <2>3. QED
    BY <2>1, <2>2
<1>17. ASSUME NEW n \in FileNames
       PROVE  Undisturbed(<<at[c][1], n>>)' => (n \in seen[c] <=> files'[<<at[c][1], n>>] # Missing)
  BY <1>3, <1>14
<1>15. \A k \in DOMAIN more : more[k][1] < name + 1
  BY <1>6 DEF AllBelow
<1> HIDE DEF name, N
<1>16. QED
  BY <1>7, <1>8, <1>10, <1>12, <1>13, <1>15, <1>17 DEF WalkOK, N

LEMMA VisitWalks ==
  ASSUME IInv, WalksOK, NEW c \in Calls, Visit(c)
  PROVE  WalksOK'
<1>1. work[c] = "walking" /\ DOMAIN at = Calls /\ DOMAIN found = Calls
  BY DEF Visit, WalksOK, IInv, FilesOK
<1>2. PICK next \in {"ok", "walking"} : Works(c, next)
  BY DEF Visit
<1>3. work'[c] # "start" /\ (\A d \in Calls : d # c => work'[d] = work[d])
  BY <1>2, WorksFrame
<1>4. UNCHANGED <<files, seen, done>>
  BY DEF Visit
<1>5. PICK now : found' = [found EXCEPT ![c] = @ \o now]
  BY DEF Visit
<1>6. DOMAIN found' = Calls /\ (\A d \in Calls : d # c => found'[d] = found[d])
  BY <1>1, <1>5
<1>7. \A d \in Calls : d # c => at'[d] = at[d]
  BY <1>1 DEF Visit
<1>8. \A f : Undisturbed(f)' => Undisturbed(f) /\ files'[f] = files[f]
  <2>1. \A d \in Calls : work[d] = "ok" /\ Tool[d] \in Writers => at'[d] = at[d]
    BY <1>1, <1>7
  <2>2. QED
    BY <1>4, <2>1, NoRename
<1>9. Tool[c] = "search_files" => WalkOK(c)'
  BY SearchStep
<1>10. \A d \in Calls : d # c => seen'[d] = seen[d]
  BY <1>4
<1>11. QED
  BY <1>3, <1>6, <1>7, <1>8, <1>9, <1>10, OthersWalk

\* A rename disturbs its own file and no other.
LEMMA RenameWalks ==
  ASSUME IInv, WalksOK, NEW c \in Calls, Rename(c)
  PROVE  WalksOK'
<1> DEFINE d == [call |-> c, was |-> files[at[c]], now |-> tmp[c]]
           n == Len(done)
<1>1. /\ work[c] = "looked" /\ Works(c, "ok") /\ Tool[c] \in Writers
      /\ files' = [files EXCEPT ![at[c]] = tmp[c]]
      /\ done' = Append(done, d) /\ UNCHANGED <<seen, at, found>>
  BY DEF Rename, IInv, KindOK
<1>2. Tool[c] # "search_files" /\ (\A e \in Calls : e # c => work'[e] = work[e])
  BY <1>1, WorksFrame DEF Writers
<1>3. ASSUME NEW f, Undisturbed(f)' PROVE Undisturbed(f) /\ files'[f] = files[f]
  <2> HIDE DEF d
  <2>1. done \in Seq([call : Calls, was : Texts \cup {Missing}, now : Texts])
    BY DEF IInv, RenamesOK
  <2>2. n \in Nat /\ DOMAIN done = 1..n /\ DOMAIN done' = 1..n + 1 /\ done'[n + 1] = d
        /\ \A i \in 1..n : done'[i] = done[i]
    BY <1>1, <2>1
  <2> HIDE DEF n
  <2>3. n + 1 \in DOMAIN done' /\ (\A i \in DOMAIN done : i \in DOMAIN done' /\ done'[i] = done[i])
    BY <2>2
  <2>4. at[d.call] # f
    BY <1>1, <1>3, <2>2, <2>3 DEF Undisturbed
  <2>5. at[c] # f
    BY <2>4 DEF d
  <2>6. Undisturbed(f)
    BY <1>1, <1>3, <2>3 DEF Undisturbed
  <2>7. QED
    BY <1>1, <2>5, <2>6
<1>4. DOMAIN found' = Calls
  BY <1>1 DEF WalksOK
<1>5. \A e \in Calls : e # c => /\ work'[e] = work[e] /\ at'[e] = at[e]
                                /\ seen'[e] = seen[e] /\ found'[e] = found[e]
  BY <1>1, <1>2
<1>6. QED
  BY <1>2, <1>3, <1>4, <1>5, OthersWalk

LEMMA ComputeWalks ==
  ASSUME IInv, WalksOK, NEW c \in Calls, Compute(c)
  PROVE  WalksOK'
<1>1. Tool[c] # "search_files" /\ work[c] = "start" /\ UNCHANGED <<files, found, done>>
      /\ DOMAIN seen = Calls /\ DOMAIN at = Calls
  BY DEF Compute, Fails, IInv, FilesOK
<1>2. PICK next : Works(c, next)
  BY DEF Compute, Fails
<1>3. \A d \in Calls : d # c => work'[d] = work[d]
  BY <1>2, WorksFrame
<1>4. \A d \in Calls : d # c => at'[d] = at[d] /\ seen'[d] = seen[d] /\ found'[d] = found[d]
  <2>1. CASE Fails(c)
    BY <2>1 DEF Fails, perCall
  <2>2. CASE ~Fails(c)
    BY <1>1, <2>2 DEF Compute
  <2>3. QED
    BY <2>1, <2>2
<1>5. \A f : Undisturbed(f)' => Undisturbed(f) /\ files'[f] = files[f]
  <2>1. \A d \in Calls : work[d] = "ok" /\ Tool[d] \in Writers => at'[d] = at[d]
    BY <1>1, <1>4
  <2>2. QED
    BY <1>1, <2>1, NoRename
<1>6. DOMAIN found' = Calls
  BY <1>1 DEF WalksOK
<1>7. QED
  BY <1>1, <1>3, <1>4, <1>5, <1>6, OthersWalk

\* The tools that walk nowhere: read_file, the rest of a write, a command, a sub-agent.
LEMMA OtherToolWalks ==
  ASSUME IInv, WalksOK, NEW c \in Calls, NEW next, Works(c, next),
         Tool[c] # "search_files" \/ next = "error",
         UNCHANGED <<files, seen, at, done>>, DOMAIN found' = Calls,
         \A d \in Calls : d # c => found'[d] = found[d]
  PROVE  WalksOK'
<1>1. work'[c] = next /\ (\A d \in Calls : d # c => work'[d] = work[d])
  BY WorksFrame
<1>2. \A f : Undisturbed(f)' => Undisturbed(f) /\ files'[f] = files[f]
  BY DEF Undisturbed
<1>3. \A d \in Calls : d # c => /\ work'[d] = work[d] /\ at'[d] = at[d]
                                /\ seen'[d] = seen[d] /\ found'[d] = found[d]
  BY <1>1
<1>4. Tool[c] = "search_files" => work'[c] = "error"
  BY <1>1
<1>5. QED
  BY <1>2, <1>3, <1>4, OthersWalk

LEMMA FileStepWalks ==
  ASSUME IInv, WalksOK, NEW c \in Calls, FileStep(c) \/ CommandExits(c)
  PROVE  WalksOK'
<1>1. DOMAIN found = Calls /\ KindOK
  BY DEF WalksOK, IInv
<1>2. CASE Compute(c) \/ Rename(c) \/ Walk(c) \/ Visit(c)
  BY <1>2, ComputeWalks, RenameWalks, WalkWalks, VisitWalks
<1>3. CASE ReadFile(c)
  <2>1. PICK next : Works(c, next)
    BY <1>3 DEF ReadFile, Fails
  <2>2. /\ Tool[c] # "search_files" /\ UNCHANGED <<files, seen, at, done>>
        /\ DOMAIN found' = Calls /\ (\A d \in Calls : d # c => found'[d] = found[d])
    BY <1>1, <1>3 DEF ReadFile, Fails, perCall
  <2>3. QED
    BY <2>1, <2>2, OtherToolWalks
<1>4. CASE LookAtContext(c) \/ WriteFails(c)
  <2>1. PICK next : Works(c, next)
    BY <1>4 DEF LookAtContext, WriteFails, Drops
  <2>2. Tool[c] # "search_files" /\ UNCHANGED <<files, seen, at, found, done>>
    BY <1>1, <1>4 DEF LookAtContext, WriteFails, Drops, perCall, KindOK, Writers
  <2>3. QED
    BY <1>1, <2>1, <2>2, OtherToolWalks
<1>5. CASE StartCommand(c) \/ KillCommand(c) \/ CommandExits(c)
  <2>1. PICK next : Works(c, next)
    BY <1>5 DEF StartCommand, KillCommand, CommandExits, Fails
  <2>2. Tool[c] # "search_files" /\ UNCHANGED <<files, seen, at, found, done>>
    BY <1>1, <1>5 DEF StartCommand, KillCommand, CommandExits, Fails, perCall, fileVars, KindOK
  <2>3. QED
    BY <1>1, <2>1, <2>2, OtherToolWalks
<1>6. QED
  BY <1>2, <1>3, <1>4, <1>5 DEF FileStep

LEMMA SubAgentStepWalks ==
  ASSUME IInv, WalksOK, NEW c \in Calls, SubAgentStep(c), UNCHANGED fileVars
  PROVE  WalksOK'
<1>1. DOMAIN found = Calls /\ UNCHANGED <<files, seen, at, found, done>>
  BY DEF WalksOK, fileVars, perCall
<1>2. Tool[c] # "search_files"
  BY DEF SubAgentStep, StartChild, ChildFails, ChildTools, ChildReply, IInv, KindOK
<1>3. PICK next : Works(c, next)
  BY DEF SubAgentStep, StartChild, ChildFails, ChildTools, ChildReply
<1>4. QED
  BY <1>1, <1>2, <1>3, OtherToolWalks

\* No step of the round, of a tool, of the user or of a sub-agent spoils a walk.
LEMMA StepWalks == IInv /\ WalksOK /\ [Next]_vars => WalksOK'
<1> SUFFICES ASSUME IInv, WalksOK, [Next]_vars PROVE WalksOK'
  OBVIOUS
<1>1. CASE UNCHANGED <<work, files, seen, at, found, done>>
  BY <1>1, NoWalk
<1>2. CASE (BeginRound \/ UserTypes \/ Cancel) /\ UNCHANGED <<fileVars, childVars>>
  BY <1>1, <1>2 DEF BeginRound, UserTypes, Cancel, fileVars, perCall, callVars
<1>3. ASSUME NEW r \in Roots \ {root}, Cd(r) PROVE WalksOK'
  BY <1>1, <1>3 DEF Cd, perCall, callVars
<1>4. ASSUME NEW c \in Calls, Asking(c) PROVE WalksOK'
  BY <1>1, <1>4 DEF Asking, NeedsNoApproval, Preview, Prompt, ReadLine, perCall, fileVars
<1>5. ASSUME NEW c \in Calls, Deadline(c), UNCHANGED fileVars PROVE WalksOK'
  BY <1>1, <1>5 DEF Deadline, callVars, perCall, fileVars
<1>6. ASSUME NEW c \in Calls, Answering(c) PROVE WalksOK'
  BY <1>1, <1>6 DEF Answering, Collect, Abandon, perCall, fileVars
<1>7. ASSUME NEW c \in Calls, ToolStep(c) \/ CommandExits(c) PROVE WalksOK'
  BY <1>7, FileStepWalks, SubAgentStepWalks DEF ToolStep
<1>8. CASE UNCHANGED vars
  BY <1>1, <1>8 DEF vars, callVars, fileVars, perCall
<1>9. QED
  BY <1>2, <1>3, <1>4, <1>5, <1>6, <1>7, <1>8 DEF Next
-----------------------------------------------------------------------------
(* Lost edits. *)

LEMMA InitOverlaps == Init => OverlapsOK
<1> SUFFICES ASSUME Init PROVE OverlapsOK
  OBVIOUS
<1>1. todo \in Scenarios /\ round = {} /\ done = <<>> /\ (\A c \in Calls : work[c] = "start")
  BY DEF Init, RoundInit, FileInit
<1>2. RoundsOK
  <2>1. ASSUME NEW i \in DOMAIN todo, NEW c \in todo[i], NEW d \in todo[i] PROVE SameRound(c, d)
    <3>1. {c, d} \subseteq todo[i]
      OBVIOUS
    <3>2. QED
      BY <1>1, <3>1 DEF SameRound
  <2>2. QED
    BY <1>1, <2>1 DEF RoundsOK, Together
<1>3. LosesOK /\ OnlyOverlapsLose
  BY <1>1 DEF LosesOK, Between, OnlyOverlapsLose
<1>4. QED
  BY <1>2, <1>3 DEF OverlapsOK

\* A call that was abandoned stays so.
Forgets == \A c \in Calls : answer[c] = "abandoned" => answer'[c] = "abandoned"

LEMMA OverlapsLast ==
  ASSUME Forgets, NEW c \in Calls, NEW d \in Calls, Overlap(c, d)
  PROVE  Overlap(c, d)'
BY DEF Forgets, Overlap, SameRound

\* A step that renames nothing, and after which an edit that is under way was so before, or
\* has just read its file.
LEMMA NoLoss ==
  ASSUME IInv, OverlapsOK, RoundsOK', Forgets, UNCHANGED <<files, done>>,
         \A d \in Calls : work[d] = "ok" /\ Tool[d] \in Writers => at'[d] = at[d] /\ seen'[d] = seen[d],
         \A d \in Calls : Between(d)' =>
           \/ Between(d) /\ at'[d] = at[d] /\ seen'[d] = seen[d]
           \/ files[at'[d]] = seen'[d]
  PROVE  OverlapsOK'
<1>1. ASSUME NEW i \in DOMAIN done
      PROVE  /\ done[i].call \in Calls
             /\ at'[done[i].call] = at[done[i].call] /\ seen'[done[i].call] = seen[done[i].call]
  <2>1. done[i].call \in Calls /\ Tool[done[i].call] \in Writers
    BY RenameIsOfAWriter
  <2>2. i \in RenamedBy(done[i].call)
    BY DEF RenamedBy
  <2>3. work[done[i].call] = "ok"
    BY <2>1, <2>2 DEF IInv, RenamesOK
  <2>4. QED
    BY <2>1, <2>3
<1>2. LosesOK'
  <2>1. ASSUME NEW d \in Calls, Between(d)', files'[at'[d]] # seen'[d]
        PROVE  \E j \in DOMAIN done : at'[done[j].call] = at'[d] /\ Overlap(done[j].call, d)'
    <3>1. Between(d) /\ at'[d] = at[d] /\ seen'[d] = seen[d] /\ files[at[d]] # seen[d]
      BY <2>1
    <3>2. PICK j \in DOMAIN done : at[done[j].call] = at[d] /\ Overlap(done[j].call, d)
      BY <3>1 DEF OverlapsOK, LosesOK
    <3>3. QED
      BY <1>1, <3>1, <3>2, OverlapsLast
  <2>2. QED
    BY <2>1 DEF LosesOK
<1>3. OnlyOverlapsLose'
  <2>1. ASSUME NEW i \in DOMAIN done, Tool[done[i].call] = "edit_file",
               done[i].was # seen'[done[i].call]
        PROVE  \E j \in 1 .. i - 1 : /\ at'[done[j].call] = at'[done[i].call]
                                     /\ Overlap(done[j].call, done[i].call)'
    <3>1. PICK j \in 1 .. i - 1 : /\ at[done[j].call] = at[done[i].call]
                                  /\ Overlap(done[j].call, done[i].call)
      BY <1>1, <2>1 DEF OverlapsOK, OnlyOverlapsLose
    <3>2. j \in DOMAIN done
      <4>1. i \in 1..Len(done) /\ Len(done) \in Nat /\ DOMAIN done = 1..Len(done)
        BY DEF IInv, RenamesOK
      <4>2. QED
        BY <4>1
    <3>3. QED
      BY <1>1, <3>1, <3>2, OverlapsLast
  <2>2. QED
    BY <2>1 DEF OnlyOverlapsLose
<1>4. QED
  BY <1>2, <1>3 DEF OverlapsOK

\* Two edits under way at once are of one round, unless one of them was abandoned.
LEMMA AtWorkTogether ==
  ASSUME IInv, OverlapsOK, NEW c \in Calls, NEW d \in Calls,
         work[c] \in {"temp", "looked"}, work[d] \in {"temp", "looked"}
  PROVE  Overlap(c, d)
<1>1. ASSUME NEW e \in Calls, work[e] \in {"temp", "looked"}
      PROVE  e \in round \/ answer[e] = "abandoned"
  <2>1. phase[e] \in {"running", "over"}
    BY <1>1 DEF IInv, RoundOK
  <2>2. phase[e] = "running" => e \in round
    BY DEF IInv, RoundOK
  <2>3. phase[e] = "over" => answer[e] = "abandoned"
    BY <1>1 DEF IInv, RoundOK, Outcomes
  <2>4. QED
    BY <2>1, <2>2, <2>3
<1>2. CASE c \in round /\ d \in round
  BY <1>2 DEF OverlapsOK, RoundsOK, Together, Overlap
<1>3. CASE answer[c] = "abandoned" \/ answer[d] = "abandoned"
  BY <1>3 DEF Overlap
<1>4. QED
  BY <1>1, <1>2, <1>3

\* A rename: whose text it replaces, and which edits it comes in between of.
LEMMA RenameLoses ==
  ASSUME IInv, OverlapsOK, NEW c \in Calls, Rename(c)
  PROVE  OverlapsOK'
<1> DEFINE n == Len(done)
           rename == [call |-> c, was |-> files[at[c]], now |-> tmp[c]]
<1>1. /\ work[c] = "looked" /\ Works(c, "ok")
      /\ files' = [files EXCEPT ![at[c]] = tmp[c]]
      /\ done' = Append(done, rename) /\ UNCHANGED <<seen, at>>
  BY DEF Rename
<1>2. /\ UNCHANGED <<todo, round, answer>>
      /\ work'[c] = "ok" /\ (\A d \in Calls : d # c => work'[d] = work[d])
  BY <1>1, WorksFrame
<1>3. rename.call = c /\ rename.was = files[at[c]]
  OBVIOUS
<1>4. done \in Seq([call : Calls, was : Texts \cup {Missing}, now : Texts])
  BY DEF IInv, RenamesOK
<1> HIDE DEF rename
<1>5. /\ n \in Nat /\ DOMAIN done = 1..n /\ DOMAIN done' = 1..n + 1 /\ done'[n + 1] = rename
      /\ \A i \in 1..n : done'[i] = done[i]
  BY <1>1, <1>4
<1> HIDE DEF n
<1>6. n + 1 \in DOMAIN done' /\ (\A i \in DOMAIN done : i \in DOMAIN done' /\ done'[i] = done[i])
  BY <1>5
<1>7. ASSUME NEW j \in DOMAIN done
      PROVE  j \in DOMAIN done' /\ done'[j] = done[j] /\ done[j].call \in Calls
  BY <1>6, RenameIsOfAWriter
<1>8. RoundsOK'
  BY <1>2 DEF OverlapsOK, RoundsOK, Together, SameRound
<1>9. LosesOK'
  <2>1. ASSUME NEW d \in Calls, Between(d)', files'[at[d]] # seen[d]
        PROVE  \E j \in DOMAIN done' : at[done'[j].call] = at[d] /\ Overlap(done'[j].call, d)
    <3>1. d # c /\ Between(d)
      BY <1>2, <2>1 DEF Between
    <3>2. CASE at[d] = at[c]
      <4>1. Overlap(c, d)
        BY <1>1, <3>1, AtWorkTogether DEF Between
      <4>2. n + 1 \in DOMAIN done' /\ done'[n + 1].call = c
        BY <1>3, <1>5, <1>6
      <4>3. QED
        BY <3>2, <4>1, <4>2
    <3>3. CASE at[d] # at[c]
      <4>1. files[at[d]] # seen[d]
        <5>1. files'[at[d]] = files[at[d]]
          BY <1>1, <3>1, <3>3 DEF IInv, FilesOK, Between
        <5>2. QED
          BY <2>1, <5>1
      <4>2. PICK j \in DOMAIN done : at[done[j].call] = at[d] /\ Overlap(done[j].call, d)
        BY <3>1, <4>1 DEF OverlapsOK, LosesOK
      <4>3. QED
        BY <1>7, <4>2
    <3>4. QED
      BY <3>2, <3>3
  <2>2. QED
    BY <1>1, <1>2, <2>1 DEF LosesOK, Overlap, SameRound
<1>10. OnlyOverlapsLose'
  <2>1. ASSUME NEW i \in DOMAIN done', Tool[done'[i].call] = "edit_file",
               done'[i].was # seen[done'[i].call]
        PROVE  \E j \in 1 .. i - 1 : /\ at[done'[j].call] = at[done'[i].call]
                                     /\ Overlap(done'[j].call, done'[i].call)
    <3>1. CASE i = n + 1
      <4>1. Between(c) /\ files[at[c]] # seen[c] /\ done'[i].call = c
        BY <1>1, <1>3, <1>5, <2>1, <3>1 DEF Between
      <4>2. PICK j \in DOMAIN done : at[done[j].call] = at[c] /\ Overlap(done[j].call, c)
        BY <4>1 DEF OverlapsOK, LosesOK
      <4>3. j \in 1 .. i - 1
        BY <1>5, <3>1
      <4>4. QED
        BY <1>7, <4>1, <4>2, <4>3
    <3>2. CASE i # n + 1
      <4>1. i \in DOMAIN done /\ done'[i] = done[i] /\ i \in 1..n
        BY <1>5, <3>2
      <4>2. PICK j \in 1 .. i - 1 : /\ at[done[j].call] = at[done[i].call]
                                    /\ Overlap(done[j].call, done[i].call)
        BY <2>1, <4>1 DEF OverlapsOK, OnlyOverlapsLose
      <4>3. j \in 1..n
        BY <1>5, <4>1
      <4>4. done'[j] = done[j]
        BY <1>5, <4>3
      <4>5. QED
        BY <4>1, <4>2, <4>4
    <3>3. QED
      BY <3>1, <3>2
  <2>2. QED
    BY <1>1, <1>2, <2>1 DEF OnlyOverlapsLose, Overlap, SameRound
<1>11. QED
  BY <1>8, <1>9, <1>10 DEF OverlapsOK

\* The step of a tool that renames nothing.
LEMMA ToolLoses ==
  ASSUME IInv, OverlapsOK, NEW c \in Calls, NEW next, Works(c, next), UNCHANGED <<files, done>>,
         \A d \in Calls : d # c \/ work[c] = "temp" => at'[d] = at[d] /\ seen'[d] = seen[d],
         next = "temp" => files[at'[c]] = seen'[c],
         next = "looked" => work[c] = "temp"
  PROVE  OverlapsOK'
<1>1. /\ UNCHANGED <<todo, round, answer>> /\ work'[c] = next /\ work[c] \notin Outcomes
      /\ \A d \in Calls : d # c => work'[d] = work[d]
  BY WorksFrame
<1>2. RoundsOK' /\ Forgets
  BY <1>1 DEF OverlapsOK, RoundsOK, Together, SameRound, Forgets
<1>3. \A d \in Calls : work[d] = "ok" /\ Tool[d] \in Writers => at'[d] = at[d] /\ seen'[d] = seen[d]
  BY <1>1 DEF Outcomes
<1>4. ASSUME NEW d \in Calls, Between(d)'
      PROVE  \/ Between(d) /\ at'[d] = at[d] /\ seen'[d] = seen[d]
             \/ files[at'[d]] = seen'[d]
  BY <1>1, <1>4 DEF Between
<1>5. QED
  BY <1>2, <1>3, <1>4, NoLoss

LEMMA FileStepLoses ==
  ASSUME IInv, OverlapsOK, NEW c \in Calls, FileStep(c) \/ CommandExits(c)
  PROVE  OverlapsOK'
<1>1. DOMAIN seen = Calls /\ DOMAIN at = Calls
  BY DEF IInv, FilesOK
<1>2. CASE Rename(c)
  BY <1>2, RenameLoses
<1>3. CASE Compute(c)
  <2> DEFINE file == Resolve(Input[c].path)
  <2>1. CASE Fails(c)
    BY <2>1, ToolLoses DEF Fails, perCall
  <2>2. CASE /\ Works(c, "temp") /\ at' = [at EXCEPT ![c] = file]
             /\ seen' = [seen EXCEPT ![c] = files[file]] /\ UNCHANGED <<files, done>>
    <3> HIDE DEF file
    <3>1. work[c] = "start"
      BY <1>3 DEF Compute
    <3>2. QED
      BY <1>1, <2>2, <3>1, ToolLoses
  <2>3. QED
    BY <1>3, <2>1, <2>2 DEF Compute
<1>4. CASE LookAtContext(c) \/ WriteFails(c)
  <2>1. PICK next \in {"looked", "error"} : Works(c, next) /\ (next = "looked" => work[c] = "temp")
    BY <1>4 DEF LookAtContext, WriteFails, Drops
  <2>2. UNCHANGED <<files, seen, at, done>>
    BY <1>4 DEF LookAtContext, WriteFails, Drops, perCall
  <2>3. QED
    BY <2>1, <2>2, ToolLoses
<1>5. CASE ReadFile(c) \/ Walk(c) \/ Visit(c)
  <2>1. PICK next \in {"ok", "error", "walking"} : Works(c, next)
    BY <1>5 DEF ReadFile, Walk, Visit, Fails
  <2>2. work[c] # "temp"
    BY <1>5 DEF ReadFile, Walk, Visit
  <2>3. /\ UNCHANGED <<files, done>>
        /\ \A d \in Calls : d # c => at'[d] = at[d] /\ seen'[d] = seen[d]
    BY <1>1, <1>5 DEF ReadFile, Walk, Visit, Fails, perCall
  <2>4. QED
    BY <2>1, <2>2, <2>3, ToolLoses
<1>6. CASE StartCommand(c) \/ KillCommand(c) \/ CommandExits(c)
  <2>1. PICK next \in {"child", "ok", "error"} : Works(c, next)
    BY <1>6 DEF StartCommand, KillCommand, CommandExits, Fails
  <2>2. UNCHANGED <<files, seen, at, done>>
    BY <1>6 DEF StartCommand, KillCommand, CommandExits, Fails, perCall, fileVars
  <2>3. QED
    BY <2>1, <2>2, ToolLoses
<1>7. QED
  BY <1>2, <1>3, <1>4, <1>5, <1>6 DEF FileStep

LEMMA SubAgentStepLoses ==
  ASSUME IInv, OverlapsOK, NEW c \in Calls, SubAgentStep(c), UNCHANGED fileVars
  PROVE  OverlapsOK'
<1>1. UNCHANGED <<files, seen, at, done>>
  BY DEF fileVars, perCall
<1>2. PICK next \in {"chat", "tools", "ok", "error"} : Works(c, next)
  BY DEF SubAgentStep, StartChild, ChildFails, ChildTools, ChildReply
<1>3. QED
  BY <1>1, <1>2, ToolLoses

\* The next round is one of the model's replies.
LEMMA BeginRoundLoses ==
  ASSUME IInv, OverlapsOK, BeginRound, UNCHANGED fileVars
  PROVE  OverlapsOK'
<1>1. /\ todo # <<>> /\ todo' = Tail(todo) /\ round' = Head(todo)
      /\ UNCHANGED <<work, answer, files, seen, at, done>>
  BY DEF BeginRound, fileVars, perCall
<1>2. todo \in Seq(SUBSET Calls)
  BY DEF IInv, RoundOK
<1>3. /\ Head(todo) = todo[1] /\ 1 \in DOMAIN todo
      /\ \A i \in DOMAIN todo' : i + 1 \in DOMAIN todo /\ todo'[i] = todo[i + 1]
  BY <1>1, <1>2
<1>4. RoundsOK'
  BY <1>1, <1>3 DEF OverlapsOK, RoundsOK, Together, SameRound
<1>5. Forgets /\ (\A d \in Calls : Between(d)' => Between(d))
  BY <1>1 DEF Forgets, Between
<1>6. QED
  BY <1>1, <1>4, <1>5, NoLoss

\* No other step reads or writes a file.
LEMMA QuietLoses ==
  ASSUME IInv, OverlapsOK, UNCHANGED <<todo, round, work, files, seen, at, done>>, Forgets
  PROVE  OverlapsOK'
<1>1. RoundsOK' /\ (\A d \in Calls : Between(d)' => Between(d))
  BY DEF OverlapsOK, RoundsOK, Together, SameRound, Between
<1>2. QED
  BY <1>1, NoLoss

LEMMA StepOverlaps == IInv /\ OverlapsOK /\ [Next]_vars => OverlapsOK'
<1> SUFFICES ASSUME IInv, OverlapsOK, [Next]_vars PROVE OverlapsOK'
  OBVIOUS
<1>1. CASE BeginRound /\ UNCHANGED <<fileVars, childVars>>
  BY <1>1, BeginRoundLoses
<1>2. CASE (UserTypes \/ Cancel) /\ UNCHANGED <<fileVars, childVars>>
  BY <1>2, QuietLoses DEF UserTypes, Cancel, plan, callVars, fileVars, perCall, Forgets
<1>3. ASSUME NEW r \in Roots \ {root}, Cd(r) PROVE OverlapsOK'
  BY <1>3, QuietLoses DEF Cd, plan, callVars, perCall, Forgets
<1>4. ASSUME NEW c \in Calls, Asking(c) \/ Answering(c) \/ (Deadline(c) /\ UNCHANGED fileVars)
      PROVE  OverlapsOK'
  <2>1. UNCHANGED <<todo, round, work, files, seen, at, done>>
    BY <1>4 DEF Asking, NeedsNoApproval, Preview, Prompt, ReadLine, Answering, Collect, Abandon,
                Deadline, plan, callVars, perCall, fileVars
  <2>2. Forgets
    <3>1. ASSUME NEW d \in Calls, answer[d] = "abandoned" PROVE answer'[d] = "abandoned"
      <4>1. phase[d] = "over"
        BY <3>1, Assumptions DEF IInv, RoundOK
      <4>2. answer \in [Calls -> Outcomes \cup {None, "denied", "abandoned"}]
        BY DEF IInv, RoundOK
      <4>3. CASE UNCHANGED answer
        BY <3>1, <4>3
      <4>4. CASE \E v : answer' = [answer EXCEPT ![c] = v] /\ phase[c] # "over"
        BY <3>1, <4>1, <4>2, <4>4
      <4>5. QED
        BY <1>4, <4>3, <4>4 DEF Asking, NeedsNoApproval, Preview, Prompt, ReadLine, Answering,
                                Collect, Abandon, Deadline, callVars
    <3>2. QED
      BY <3>1 DEF Forgets
  <2>3. QED
    BY <2>1, <2>2, QuietLoses
<1>5. ASSUME NEW c \in Calls, ToolStep(c) \/ CommandExits(c) PROVE OverlapsOK'
  BY <1>5, FileStepLoses, SubAgentStepLoses DEF ToolStep
<1>6. CASE UNCHANGED vars
  BY <1>6, QuietLoses DEF vars, plan, callVars, fileVars, perCall, Forgets
<1>7. QED
  BY <1>1, <1>2, <1>3, <1>4, <1>5, <1>6 DEF Next
-----------------------------------------------------------------------------
(* The properties. *)

\* However many calls run beside each other and whichever are abandoned, the record says
\* of each what became of the workspace.
THEOREM RecordIsTrue == Spec => []AnswersAreTrue
<1>1. IInv => AnswersAreTrue
  <2> SUFFICES ASSUME IInv, NEW c \in Calls
               PROVE  /\ answer[c] \in {"denied", "error"} => RenamedBy(c) = {} /\ tmp[c] = None
                      /\ answer[c] = "ok" /\ Tool[c] \in {"write_file", "edit_file"} =>
                           Cardinality(RenamedBy(c)) = 1
                      /\ answer[c] = "ok" /\ Tool[c] = "sub_agent" => child[c].final
    BY DEF AnswersAreTrue
  <2>1. /\ answer[c] \in {"ok", "error"} => work[c] = answer[c]
        /\ answer[c] = "denied" => work[c] = "start"
    BY DEF IInv, RoundOK, Outcomes
  <2>2. answer[c] \in {"denied", "error"} => RenamedBy(c) = {} /\ tmp[c] = None
    BY <2>1 DEF IInv, RenamesOK, FilesOK
  <2>3. ASSUME answer[c] = "ok", Tool[c] \in {"write_file", "edit_file"}
        PROVE  Cardinality(RenamedBy(c)) = 1
    <3>1. PICK i \in DOMAIN done : RenamedBy(c) = {i}
      BY <2>1, <2>3 DEF IInv, RenamesOK, Writers
    <3>2. QED
      BY <3>1, FS_Singleton
  <2>4. answer[c] = "ok" /\ Tool[c] = "sub_agent" => child[c].final
    BY <2>1 DEF IInv, ChildrenOK
  <2>5. QED
    BY <2>2, <2>3, <2>4
<1>2. QED
  BY <1>1, Invariant, PTL

\* For any calls, rounds and files: an edit undoes a change only of a call that ran at the
\* same time, or if one of the two was abandoned.
THEOREM AnsweredEditsStay == Spec => []OnlyOverlapsLose
<1>1. OverlapsOK => OnlyOverlapsLose
  BY DEF OverlapsOK
<1>2. Init => OverlapsOK
  BY InitOverlaps
<1>3. IInv /\ OverlapsOK /\ [Next]_vars => OverlapsOK'
  BY StepOverlaps
<1>4. QED
  BY <1>1, <1>2, <1>3, Invariant, PTL DEF Spec

\* Through concurrent calls, abandoned tools and /cd, what the user approved is what is
\* done.
THEOREM ApprovedEditsAreDone == Spec => []ApprovedIsDone
<1>1. IInv => ApprovedIsDone
  <2> SUFFICES ASSUME IInv, NEW i \in DOMAIN done, shown[done[i].call] # None
               PROVE  /\ at[done[i].call] = shown[done[i].call].file
                      /\ /\ Readable(shown[done[i].call].diff)
                         /\ done[i].was = seen[done[i].call]
                         /\ TextOf(done[i].was) = Before(shown[done[i].call].diff)
                         => done[i].now = After(shown[done[i].call].diff)
    BY DEF ApprovedIsDone
  <2> DEFINE c == done[i].call
  <2>1. /\ c \in Calls /\ Tool[c] \in Writers
        /\ done[i].was \in Texts \cup {Missing} /\ done[i].now \in Texts
    BY RenameIsOfAWriter
  <2>2. c \in Calls /\ shown[c] # None /\ i \in RenamedBy(c)
    BY <2>1 DEF RenamedBy
  <2>3. work[c] = "ok"
    BY <2>2 DEF IInv, RenamesOK
  <2>4. at[c] = shown[c].file
    BY <2>1, <2>2, <2>3 DEF IInv, ShownOK
  <2>5. ASSUME Readable(shown[c].diff), done[i].was = seen[c],
               TextOf(done[i].was) = Before(shown[c].diff)
        PROVE  done[i].now = After(shown[c].diff)
    <3>1. /\ done[i].now = Result(c, done[i].was)
          /\ Tool[c] = "edit_file" => done[i].was # Missing
      BY <2>5 DEF IInv, RenamesOK
    <3>2. PICK old \in Texts \cup {Missing} :
            /\ Result(c, old) \in Texts
            /\ Tool[c] = "edit_file" => old # Missing
            /\ shown[c].diff = LineDiff(TextOf(old), Result(c, old))
      BY <2>2 DEF IInv, ShownOK
    <3>3. TextOf(old) \in Texts
      <4>1. CASE old = Missing
        <5>1. ASSUME NEW S, NEW s \in S PROVE <<s>> \in Seq(S)
          OBVIOUS
        <5>2. "" \in Strings
          BY DEF Strings
        <5>3. <<"">> \in Seq(Strings)
          BY <5>1, <5>2
        <5>4. QED
          BY <4>1, <5>3 DEF TextOf, Texts
      <4>2. CASE old # Missing
        BY <4>2 DEF TextOf
      <4>3. QED
        BY <4>1, <4>2
    <3>4. Before(shown[c].diff) = TextOf(old) /\ After(shown[c].diff) = Result(c, old)
      <4> DEFINE new == Result(c, old)
      <4>1. TellsChange(LineDiff(TextOf(old), new), TextOf(old), new)
        BY <3>2, <3>3, PreviewsAreTrue DEF Texts
      <4>2. LineDiff(TextOf(old), new) # NoChanges /\ Whole(LineDiff(TextOf(old), new))
        BY <2>5, <3>2 DEF Readable
      <4> HIDE DEF new
      <4>3. TextOf(old) # new
        BY <4>2 DEF LineDiff
      <4>4. /\ Before(LineDiff(TextOf(old), new)) = TextOf(old)
            /\ After(LineDiff(TextOf(old), new)) = new
        BY <4>1, <4>2, <4>3 DEF TellsChange
      <4>5. QED
        BY <3>2, <4>4 DEF new
    <3>5. Result(c, done[i].was) = Result(c, old)
      <4>1. CASE Tool[c] = "write_file"
        BY <4>1 DEF Result
      <4>2. CASE Tool[c] = "edit_file"
        <5>1. done[i].was = old
          BY <2>5, <3>1, <3>2, <3>4, <4>2 DEF TextOf
        <5>2. QED
          BY <5>1
      <4>3. QED
        BY <2>1, <4>1, <4>2 DEF Writers
    <3>6. QED
      BY <3>1, <3>4, <3>5
  <2>6. QED
    BY <2>4, <2>5
<1>2. QED
  BY <1>1, Invariant, PTL

\* The previews of any texts, of any number of lines, tell the change unless they are cut.
THEOREM PreviewsTell == Spec => []PreviewsTellChange
<1>1. \A a, b \in Samples : a \in Seq(STRING) /\ b \in Seq(STRING)
  BY SampleAssumption
<1>2. PreviewsTellChange
  BY <1>1, PreviewsAreTrue DEF PreviewsTellChange
<1>3. QED
  BY <1>2, PTL

\* Whatever is renamed meanwhile and however often the sandbox moves, a walk reports of
\* every file that nobody changed each match up to the cap, and nothing else.
THEOREM WalksFindAll == Spec => []WalkFindsAll
<1>1. IInv /\ WalksOK => WalkFindsAll
  <2> SUFFICES ASSUME WalksOK, NEW c \in Calls, Tool[c] = "search_files", work[c] = "ok",
                      NEW n \in FileNames, files[<<at[c][1], n>>] # Missing,
                      Undisturbed(<<at[c][1], n>>)
               PROVE  /\ Got(c, n) \subseteq Hits(c, <<at[c][1], n>>)
                      /\ n \in Denied => Got(c, n) = {}
                      /\ n \notin Denied => \/ Got(c, n) = Hits(c, <<at[c][1], n>>)
                                            \/ Len(found[c]) = MatchCap
    BY DEF WalkFindsAll, Got, Hits, Undisturbed
  <2>1. WalkOK(c)
    BY DEF WalksOK
  <2>2. Passed(c, n)
    BY <2>1 DEF WalkOK
  <2>3. CASE n < at[c][2]
    BY <2>2, <2>3 DEF Passed
  <2>4. CASE ~(n < at[c][2])
    <3>1. \A k \in DOMAIN found[c] : found[c][k][1] # n
      BY <2>1, <2>4 DEF WalkOK
    <3>2. Got(c, n) = {}
      BY <3>1 DEF Got
    <3>3. at[c][2] # Cardinality(FileNames) + 1
      <4>1. n \in Nat /\ n <= Cardinality(FileNames) /\ Cardinality(FileNames) \in Nat
        BY Names
      <4>2. QED
        BY <2>4, <4>1
    <3>4. Len(found[c]) = MatchCap
      BY <2>1, <3>3 DEF WalkOK
    <3>5. QED
      BY <3>2, <3>4
  <2>5. QED
    BY <2>3, <2>4
<1>2. Init => WalksOK
  BY InitWalks
<1>3. IInv /\ IInv' /\ WalksOK /\ [Next]_vars => WalksOK'
  BY StepWalks
<1>4. QED
  BY <1>1, <1>2, <1>3, Invariant, PTL DEF Spec

\* A gated tool that began was let in by a yes: by the user's answer to its own prompt,
\* unless two prompts waited at once.
THEOREM ConsentIsOwn == Spec => []QuietConsent
<1>1. IInv => QuietConsent
  BY DEF IInv, ConsentOK, LetIn, QuietConsent
<1>2. QED
  BY <1>1, Invariant, PTL

\* For every budget, reply and number of sub-agents, each spends less than one reply more
\* than what its parent has left.
THEOREM DelegationIsBounded == Spec => []DelegationBound
<1>1. IInv => DelegationBound
  BY DEF IInv, ChildrenOK, DelegationBound
<1>2. QED
  BY <1>1, Invariant, PTL

\* A sub-agent takes no more turns than its own limit and its parent's.
THEOREM TurnsAreBounded == Spec => [](\A c \in Calls : child[c].turns <= ChildTurns)
<1>1. IInv => \A c \in Calls : child[c].turns <= ChildTurns
  BY DEF IInv, ChildrenOK
<1>2. QED
  BY <1>1, Invariant, PTL
=============================================================================
