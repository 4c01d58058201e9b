------------------------------ MODULE SubAgent ------------------------------
(***************************************************************************)
(* The sub_agent tool: its Run is a whole Agent of its own, with an empty   *)
(* history, read-only tools and AutoApprove.  AgentLoop models what such an *)
(* agent does to its history; here it is the rounds it may take, the tokens *)
(* it spends and how it ends, beside the other calls of its parent's round. *)
(***************************************************************************)
EXTENDS Round

CONSTANTS
  ParentTurns,   \* the parent's MaxTurns, 0 for no limit
  ParentBudget,  \* the parent's TokenBudget, 0 for no limit
  Spents,        \* what the parent's completed turns may have used
  Replies,       \* the usage a reply may have, input and output together
  MaxChildTurns  \* subAgentMaxTurns

ASSUME SubAgentAssumption ==
  /\ ParentTurns \in Nat /\ ParentBudget \in Nat /\ MaxChildTurns \in Nat \ {0}
  /\ Spents \subseteq Nat /\ Replies \subseteq Nat
  /\ \E most \in Replies : \A n \in Replies : n <= most

VARIABLES
  spent,   \* Agent.CumulativeUsage of the parent
  child    \* child[c]: rounds, tokens, the last reply was final

childVars == <<spent, child>>

SubAgentInit ==
  /\ spent \in Spents
  /\ child = [c \in Calls |-> [turns |-> 0, tokens |-> 0, final |-> FALSE]]

ChildTurns == IF ParentTurns > 0 THEN SmallerOf(ParentTurns, MaxChildTurns) ELSE MaxChildTurns

\* Mutant: nothing left is not told from no limit.
ChildBudgetOfNothing == IF ParentBudget = 0 \/ spent >= ParentBudget THEN 0 ELSE ParentBudget - spent

\* childGuards: what is left of the parent's budget, at least 1; 0 for no limit.
ChildBudget == IF ParentBudget = 0 THEN 0
               ELSE IF ParentBudget - spent < 1 THEN 1 ELSE ParentBudget - spent

ChildTripped(c) == \/ child[c].turns >= ChildTurns
                   \/ ChildBudget > 0 /\ child[c].tokens >= ChildBudget

StartChild(c) ==
  /\ Tool[c] = "sub_agent" /\ work[c] = "start"
  /\ Works(c, IF Rejects(c) THEN "error" ELSE "chat")
  /\ UNCHANGED childVars

\* A reply comes even after the context has ended, if it was on its way.
ChildReply(c, n, final) ==
  /\ work[c] = "chat"
  /\ Works(c, IF final THEN "ok" ELSE "tools")
  /\ child' = [child EXCEPT ![c] = [turns |-> @.turns + 1, tokens |-> @.tokens + n, final |-> final]]
  /\ UNCHANGED spent

\* The provider fails, as it does when its context ends.
ChildFails(c) ==
  /\ work[c] = "chat"
  /\ Works(c, "error")
  /\ UNCHANGED childVars

\* Mutant: what a guard cut off is returned like a final answer.
ChildToolsCutOff(c) ==
  /\ work[c] = "tools"
  /\ Works(c, IF ChildTripped(c) THEN "ok" ELSE "chat")
  /\ UNCHANGED childVars

\* Its own tools, read-only, are answered or abandoned; then its guards decide.
ChildTools(c) ==
  /\ work[c] = "tools"
  /\ Works(c, IF ChildTripped(c) THEN "error" ELSE "chat")
  /\ UNCHANGED childVars

SubAgentStep(c) ==
  \/ StartChild(c) \/ ChildFails(c) \/ ChildTools(c)
  \/ \E n \in Replies, final \in BOOLEAN : ChildReply(c, n, final)
=============================================================================
