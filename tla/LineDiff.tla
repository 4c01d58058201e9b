------------------------------ MODULE LineDiff ------------------------------
(***************************************************************************)
(* The text operations of internal/tools: lineDiff, the preview a user      *)
(* approves, and applyEdit.  A text is its sequence of lines; the string an *)
(* edit looks for is one whole line.  The budget a preview is cut to counts *)
(* lines where the code counts bytes.                                       *)
(***************************************************************************)
EXTENDS Integers, Sequences, FiniteSets

CONSTANTS
  MaxDiffLines,        \* maxDiffLines
  DefaultByteBudget    \* defaultByteBudget, in lines

ASSUME DiffAssumption == MaxDiffLines \in Nat /\ DefaultByteBudget \in Nat \ {0}

\* longestCommonSubsequence's table: dp[i][j] for what is left of a and b.
Cells(a, b) == (1 .. Len(a) + 1) \X (1 .. Len(b) + 1)

Cell(a, b, dp, i, j) ==
  IF i > Len(a) \/ j > Len(b) THEN 0
  ELSE IF a[i] = b[j] THEN dp[<<i + 1, j + 1>>] + 1
  ELSE IF dp[<<i + 1, j>>] >= dp[<<i, j + 1>>] THEN dp[<<i + 1, j>>] ELSE dp[<<i, j + 1>>]

Table(a, b) == LET dp[p \in Cells(a, b)] == Cell(a, b, dp, p[1], p[2]) IN dp

\* The walk through the table, from what is left of a and b.
Collected(a, b, dp, rest, i, j) ==
  IF i > Len(a) \/ j > Len(b) THEN <<>>
  ELSE IF a[i] = b[j] THEN <<a[i]>> \o rest[<<i + 1, j + 1>>]
  ELSE IF dp[<<i + 1, j>>] >= dp[<<i, j + 1>>] THEN rest[<<i + 1, j>>] ELSE rest[<<i, j + 1>>]

Common(a, b, dp) ==
  LET rest[p \in Cells(a, b)] == Collected(a, b, dp, rest, p[1], p[2]) IN rest

LongestCommonSubsequence(a, b) == Common(a, b, Table(a, b))[<<1, 1>>]

Marked(mark, line) == <<[mark |-> mark, line |-> line]>>

\* How far oi, ni and li have come.
Places(a, b, lcs) == (1 .. Len(a) + 1) \X (1 .. Len(b) + 1) \X (1 .. Len(lcs) + 1)

\* newLines[ni] beyond the end.  It would end the preview short of the old text.
Panic == <<>>

\* Mutant: the loop prints a common line as soon as the old text has it.
EagerlyPrinted(a, b, lcs, from, i, j, l) ==
  IF i > Len(a) /\ j > Len(b) THEN <<>>
  ELSE IF l <= Len(lcs) /\ i <= Len(a) /\ a[i] = lcs[l] /\ j <= Len(b)
  THEN Marked(" ", a[i]) \o from[<<i + 1, j + 1, l + 1>>]
  ELSE IF i <= Len(a) THEN Marked("-", a[i]) \o from[<<i + 1, j, l>>]
  ELSE Marked("+", b[j]) \o from[<<i, j + 1, l>>]

\* One turn of lineDiff's loop, and those after it.
Printed(a, b, lcs, from, i, j, l) ==
  IF i > Len(a) /\ j > Len(b) THEN <<>>
  ELSE IF l <= Len(lcs) /\ i <= Len(a) /\ a[i] = lcs[l] /\ j <= Len(b) /\ b[j] = lcs[l]
  THEN Marked(" ", a[i]) \o from[<<i + 1, j + 1, l + 1>>]
  ELSE IF i <= Len(a) /\ (l > Len(lcs) \/ a[i] # lcs[l])
  THEN Marked("-", a[i]) \o from[<<i + 1, j, l>>]
  ELSE IF j <= Len(b) THEN Marked("+", b[j]) \o from[<<i, j + 1, l>>]
  ELSE Panic

Loop(a, b, lcs) ==
  LET from[p \in Places(a, b, lcs)] == Printed(a, b, lcs, from, p[1], p[2], p[3]) IN from

\* What the loop has built at its end.
MinimalDiff(a, b) == Loop(a, b, LongestCommonSubsequence(a, b))[<<1, 1, 1>>]

\* The fallback: the lines under the header "--- old", then those under "+++ new".
Under(header, text) == [k \in 1 .. Len(text) |-> [mark |-> header, line |-> text[k]]]
Dump(a, b) == Under("old", a) \o Under("new", b)

\* What is cut out of a preview leaves a marker, which counts as one line.
Elided == [mark |-> "elided", line |-> ""]

TruncateBytes(preview) ==
  LET keep == DefaultByteBudget - 1
      head == keep \div 2
      tail == keep - head
      n == Len(preview)
  IN IF n <= DefaultByteBudget THEN preview
     ELSE SubSeq(preview, 1, head) \o <<Elided>> \o SubSeq(preview, n - tail + 1, n)

NoChanges == <<>>

LineDiff(a, b) ==
  IF a = b THEN NoChanges
  ELSE TruncateBytes(IF Len(a) > MaxDiffLines \/ Len(b) > MaxDiffLines
                     THEN Dump(a, b) ELSE MinimalDiff(a, b))

\* What a reader of a diff takes the text before and after to be.
Picked(diff, marks, rest, k) ==
  IF k > Len(diff) THEN <<>>
  ELSE (IF diff[k].mark \in marks THEN <<diff[k].line>> ELSE <<>>) \o rest[k + 1]

LinesFrom(diff, marks) == LET rest[k \in 1 .. Len(diff) + 1] == Picked(diff, marks, rest, k) IN rest

Lines(diff, marks) == LinesFrom(diff, marks)[1]

Before(diff) == Lines(diff, {" ", "-", "old"})
After(diff)  == Lines(diff, {" ", "+", "new"})

Whole(diff) == \A k \in DOMAIN diff : diff[k] # Elided

\* The user can read the whole change off it.
Readable(diff) == diff # NoChanges /\ Whole(diff)

\* The ways to keep n lines of a text and strike the others out.
Keeping(n, text) == {f \in [1 .. n -> DOMAIN text] : \A i, j \in 1 .. n : i < j => f[i] < f[j]}

\* A diff tells the text before from the text after, and marks as few lines
\* as any diff could: no more lines can be kept of both.
IsMinimalDiff(diff, a, b) ==
  /\ Before(diff) = a /\ After(diff) = b
  /\ \A n \in 0 .. Len(a) : \A f \in Keeping(n, a), g \in Keeping(n, b) :
       (\A k \in 1 .. n : a[f[k]] = b[g[k]]) => n <= Len(Lines(diff, {" "}))

\* A preview keeps to the budget, says that nothing changes only when nothing does, and,
\* if nothing was cut out of it, tells both texts, minimally unless one is too long.
TellsChange(diff, a, b) ==
  /\ Len(diff) <= DefaultByteBudget
  /\ diff = NoChanges => a = b
  /\ a # b /\ Whole(diff) =>
       /\ Before(diff) = a /\ After(diff) = b
       /\ Len(a) <= MaxDiffLines /\ Len(b) <= MaxDiffLines => IsMinimalDiff(diff, a, b)

Occurrences(text, line) == Cardinality({k \in 1 .. Len(text) : text[k] = line})

\* applyEdit refuses an edit whose old string is not there, or is there more
\* than once with replace_all unset.
CanApply(text, old, new, all) ==
  /\ old # new
  /\ Occurrences(text, old) = 1 \/ (all /\ Occurrences(text, old) > 1)

ApplyEdit(text, old, new) == [k \in 1 .. Len(text) |-> IF text[k] = old THEN new ELSE text[k]]
=============================================================================
