----------------------------- MODULE FileTools -----------------------------
(***************************************************************************)
(* The tools of internal/tools that look at the workspace or change it:     *)
(* read_file, write_file, edit_file, the tools that walk a directory, and   *)
(* run_command.  They share a Sandbox, whose root /cd moves, and the disk.  *)
(*                                                                         *)
(* A file's name is a number, in the order in which a walk meets them.      *)
(* Walks are of one directory.  A file holds a text (LineDiff) or is        *)
(* Missing.                                                                 *)
(***************************************************************************)
EXTENDS Round, LineDiff, SequencesExt

CONSTANTS
  Roots,        \* the directories the sandbox may be rooted at
  FileNames,    \* 1 .. the number of names in each
  Denied,       \* those that match a deny glob (.env, *.pem, id_*, ...)
  Input,        \* Input[c]: path, old and new line, replace_all, new text, names
  Contents,     \* what the workspace may hold at first
  MatchCap,     \* defaultMatchCap
  Missing

ASSUME FileAssumption ==
  /\ IsFiniteSet(FileNames) /\ FileNames # {} /\ FileNames = 1 .. Cardinality(FileNames)
  /\ Denied \subseteq FileNames
  /\ MatchCap \in Nat \ {0}
  /\ \A c \in Calls : Input[c].text \in Seq(STRING) /\ Input[c].new \in STRING
  /\ Contents \subseteq [Roots \X FileNames -> Seq(STRING) \cup {Missing}]

VARIABLES
  files,    \* the workspace
  root,     \* Sandbox.root
  seen,     \* the text a call's Run read, or the directory its walk read
  tmp,      \* its temporary file
  at,       \* the file its path resolved to, or its walk is at
  found,    \* what a read or a walk has got so far
  shown,    \* the preview the user was shown
  done      \* history: the renames, in order, each with the text it replaced

fileVars == <<files, root, seen, tmp, at, found, shown, done>>
perCall == <<seen, tmp, at>>

FileInit ==
  /\ files \in Contents /\ root \in Roots
  /\ seen = [c \in Calls |-> None] /\ tmp = [c \in Calls |-> None]
  /\ at = [c \in Calls |-> None] /\ found = [c \in Calls |-> <<>>]
  /\ shown = [c \in Calls |-> None] /\ done = <<>>

Resolves(path) == path \in FileNames \ Denied
Resolve(path) == <<root, path>>

TextOf(content) == IF content = Missing THEN <<"">> ELSE content

\* What an edit or a write would make of a text; None when it refuses.
Result(c, content) ==
  LET in == Input[c] IN
  IF Tool[c] = "write_file" THEN in.text
  ELSE IF content # Missing /\ CanApply(content, in.old, in.new, in.all)
  THEN ApplyEdit(content, in.old, in.new) ELSE None

\* Preview, which checkApproval calls before it prompts: it reads the file now.
Preview(c) ==
  /\ Prompt(c)
  /\ shown' = [shown EXCEPT ![c] =
       LET file == Resolve(Input[c].path)
           new == Result(c, files[file])
       IN IF Tool[c] = "run_command" \/ ~Resolves(Input[c].path) \/ new = None THEN None
          ELSE [file |-> file, diff |-> LineDiff(TextOf(files[file]), new)]]
  /\ UNCHANGED <<files, root, perCall, found, done>>

\* Mutant: a command runs while a turn does.
CdAnyTime(r) ==
  /\ root' = r
  /\ UNCHANGED <<plan, callVars, contexts, console, files, perCall, found, shown, done>>

\* /cd: the driver takes a command only between turns.
Cd(r) ==
  /\ Answered
  /\ root' = r
  /\ UNCHANGED <<plan, callVars, contexts, console, files, perCall, found, shown, done>>
-----------------------------------------------------------------------------
(* read_file, and the first half of edit_file and write_file. *)

Fails(c) == Works(c, "error") /\ UNCHANGED <<files, root, perCall, found, shown, done>>

ReadFile(c) ==
  /\ Tool[c] = "read_file" /\ work[c] = "start"
  /\ IF Rejects(c) \/ ~Resolves(Input[c].path) \/ files[Resolve(Input[c].path)] = Missing
     THEN Fails(c)
     ELSE /\ Works(c, "ok")
          /\ found' = [found EXCEPT ![c] = <<files[Resolve(Input[c].path)]>>]
          /\ UNCHANGED <<files, root, perCall, shown, done>>

\* readAndApply and applyEdit, or write_file's Resolve; then the temporary file.
Compute(c) ==
  /\ Tool[c] \in {"write_file", "edit_file"} /\ work[c] = "start"
  /\ LET path == Input[c].path
         content == files[Resolve(path)]
     IN IF Rejects(c) \/ ~Resolves(path) \/ Result(c, content) = None THEN Fails(c)
        ELSE /\ Works(c, "temp")
             /\ at' = [at EXCEPT ![c] = Resolve(path)]
             /\ seen' = [seen EXCEPT ![c] = content]
             /\ tmp' = [tmp EXCEPT ![c] = Result(c, content)]
             /\ UNCHANGED <<files, root, found, shown, done>>

\* atomicWriteFile looks at its context once, after the temporary file is
\* complete; the deferred Remove takes that file away on every return.
Drops(c) ==
  /\ Works(c, "error")
  /\ tmp' = [tmp EXCEPT ![c] = None]
  /\ UNCHANGED <<files, root, seen, at, found, shown, done>>

LookAtContext(c) ==
  /\ work[c] = "temp"
  /\ IF Stopped(c) THEN Drops(c)
     ELSE Works(c, "looked") /\ UNCHANGED <<files, root, perCall, found, shown, done>>

\* Mutant: the rename comes before the last look at the context.
RenameThenLook(c) ==
  /\ work[c] = "looked"
  /\ Works(c, IF Stopped(c) THEN "error" ELSE "ok")
  /\ files' = [files EXCEPT ![at[c]] = tmp[c]]
  /\ tmp' = [tmp EXCEPT ![c] = None]
  /\ done' = Append(done, [call |-> c, was |-> files[at[c]], now |-> tmp[c]])
  /\ UNCHANGED <<root, seen, at, found, shown>>

Rename(c) ==
  /\ work[c] = "looked"
  /\ Works(c, "ok")
  /\ files' = [files EXCEPT ![at[c]] = tmp[c]]
  /\ tmp' = [tmp EXCEPT ![c] = None]
  /\ done' = Append(done, [call |-> c, was |-> files[at[c]], now |-> tmp[c]])
  /\ UNCHANGED <<root, seen, at, found, shown>>

WriteFails(c) == work[c] \in {"temp", "looked"} /\ Drops(c)
-----------------------------------------------------------------------------
(* The tools that walk a directory: its names are read at once, and then, for  *)
(* search_files, each file as it is when its turn comes.                       *)

Walks == {"search_files", "glob_files", "list_dir"}

\* list_dir reports every name; glob_files those that match its pattern.
Listed(name) == <<<<name, 0>>>>
Globbed(c, name) == IF name \in Input[c].names \ Denied THEN <<<<name, 0>>>> ELSE <<>>

\* searchFile: the matching lines, at most as many as the walk may still report.
SearchFile(c, name, limit) ==
  LET content == files[<<at[c][1], name>>]
      hits == FlattenSeq([k \in DOMAIN content |->
                IF content[k] = Input[c].old THEN <<k>> ELSE <<>>])
  IN IF name \in Denied \/ content = Missing THEN <<>>
     ELSE [k \in 1 .. SmallerOf(Len(hits), limit) |-> <<name, hits[k]>>]

Matches(c, name, limit) ==
  CASE Tool[c] = "list_dir" -> Listed(name)
    [] Tool[c] = "glob_files" -> Globbed(c, name)
    [] Tool[c] = "search_files" -> SearchFile(c, name, limit)

Walk(c) ==
  /\ Tool[c] \in Walks /\ work[c] = "start"
  /\ IF Rejects(c) THEN Fails(c)
     ELSE /\ Works(c, "walking")
          /\ at' = [at EXCEPT ![c] = <<root, 1>>]
          /\ seen' = [seen EXCEPT ![c] = {n \in FileNames : files[<<root, n>>] # Missing}]
          /\ UNCHANGED <<files, root, tmp, found, shown, done>>

\* Mutant: the limit handed to the file is one too small.
VisitOneLess(c) ==
  /\ work[c] = "walking"
  /\ LET name == at[c][2]
         now == IF name \in seen[c] THEN Matches(c, name, MatchCap - Len(found[c]) - 1) ELSE <<>>
     IN /\ found' = [found EXCEPT ![c] = @ \o now]
        /\ at' = [at EXCEPT ![c] = <<@[1], name + 1>>]
        /\ Works(c, IF Len(found[c] \o now) >= MatchCap \/ name = Cardinality(FileNames)
                    THEN "ok" ELSE "walking")
  /\ UNCHANGED <<files, root, seen, tmp, shown, done>>

Visit(c) ==
  /\ work[c] = "walking"
  /\ LET name == at[c][2]
         now == IF name \in seen[c] THEN Matches(c, name, MatchCap - Len(found[c])) ELSE <<>>
     IN /\ found' = [found EXCEPT ![c] = @ \o now]
        /\ at' = [at EXCEPT ![c] = <<@[1], name + 1>>]
        /\ Works(c, IF Len(found[c] \o now) >= MatchCap \/ name = Cardinality(FileNames)
                    THEN "ok" ELSE "walking")
  /\ UNCHANGED <<files, root, seen, tmp, shown, done>>
-----------------------------------------------------------------------------
(* run_command: a child process in a group of its own, killed with it.       *)

StartCommand(c) ==
  /\ Tool[c] = "run_command" /\ work[c] = "start"
  /\ IF Rejects(c) \/ Stopped(c) THEN Fails(c)
     ELSE Works(c, "child") /\ UNCHANGED fileVars

\* Run reports an error if the context has ended by the time it looks.
CommandExits(c) ==
  /\ work[c] = "child"
  /\ Works(c, IF Stopped(c) THEN "error" ELSE "ok")
  /\ UNCHANGED fileVars

\* Mutant: the command belongs to the round that waits for it.
KillCommandInRound(c) ==
  /\ work[c] = "child" /\ Stopped(c) /\ phase[c] = "running"
  /\ Works(c, "error")
  /\ UNCHANGED fileVars

\* cmd.Cancel, when the context ends: the whole group is killed.
KillCommand(c) ==
  /\ work[c] = "child" /\ Stopped(c)
  /\ Works(c, "error")
  /\ UNCHANGED fileVars

\* The steps a tool takes by itself; a command may run for ever.
FileStep(c) ==
  \/ ReadFile(c) \/ Compute(c) \/ LookAtContext(c) \/ Rename(c) \/ WriteFails(c)
  \/ Walk(c) \/ Visit(c) \/ StartCommand(c) \/ KillCommand(c)
=============================================================================
