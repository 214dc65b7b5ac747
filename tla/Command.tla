--------------------------------- MODULE Command ---------------------------------
(***************************************************************************)
(* A command that the executor runs (executor: handlers/command.rs): a     *)
(* child in a process group of its own, whose output two threads drain     *)
(* while the handler polls for its end or for the deadline.  What the      *)
(* command does is its own affair: it starts processes that outlive it,    *)
(* leave its group (setsid) or close the pipes they inherited.  Processes  *)
(* that are alike in this are one.  This is the handler on Unix; elsewhere *)
(* only the child is killed.                                               *)
(***************************************************************************)
EXTENDS Naturals, FiniteSets

CONSTANTS MaxDescendants   \* bound: kinds of descendants alive at once

ASSUME CommandAssumption == MaxDescendants \in Nat

VARIABLES
  handler,   \* "ready"; then "polling"; "draining" the output of a child that ended, or
             \* "late" past the deadline and "killed" after the group was
  child,     \* the child is "running", or "ended"
  late,      \* the deadline has passed
  family     \* the descendants alive: whether they left the group, and hold a pipe

command_vars == <<handler, child, late, family>>

Descendant == [left : BOOLEAN, holds : BOOLEAN]

CommandTypeOK ==
  /\ handler \in {"ready", "polling", "draining", "late", "killed"}
  /\ child \in {"running", "ended"} /\ late \in BOOLEAN
  /\ family \subseteq Descendant /\ Cardinality(family) <= MaxDescendants

CommandInit == handler = "ready" /\ child = "ended" /\ late = FALSE /\ family = {}

-----------------------------------------------------------------------------
(* The processes (external).                                               *)

Lives(kinds) ==
  /\ handler # "ready"
  /\ Cardinality(kinds) <= MaxDescendants
  /\ family' = kinds
  /\ UNCHANGED <<handler, child, late>>

DescendantStarts ==
  child = "running" /\ Lives(family \cup {[left |-> FALSE, holds |-> TRUE]})

\* A descendant, or one that it starts, leaves the group or closes its pipes.
DescendantChanges ==
  \E p \in family : \E q \in {[p EXCEPT !.left = TRUE], [p EXCEPT !.holds = FALSE]} :
    Lives(family \cup {q}) \/ Lives((family \ {p}) \cup {q})

DescendantEnds == \E p \in family : Lives(family \ {p})

ChildEnds ==
  /\ child = "running"
  /\ child' = "ended"
  /\ UNCHANGED <<handler, late, family>>

DeadlinePasses ==
  /\ handler = "polling" /\ ~late
  /\ late' = TRUE
  /\ UNCHANGED <<handler, child, family>>

-----------------------------------------------------------------------------
(* The handler.                                                            *)

Spawns ==
  /\ handler = "ready"
  /\ handler' = "polling" /\ child' = "running" /\ late' = FALSE /\ family' = {}

\* One turn of the poll loop: the child's end comes first.
Polls ==
  /\ handler = "polling"
  /\ handler' = IF child = "ended" THEN "draining" ELSE IF late THEN "late" ELSE "polling"
  /\ UNCHANGED <<child, late, family>>

\* Variant: the child alone is killed.
kill_tree_Child == child' = "ended" /\ UNCHANGED family

\* The group is signalled as one, and no member of it outlives that.
kill_tree == child' = "ended" /\ family' = {p \in family : p.left}

Kills ==
  /\ handler = "late"
  /\ kill_tree
  /\ handler' = "killed"
  /\ UNCHANGED late

\* A reader thread ends when nobody holds its pipe any more.
drained == child = "ended" /\ \A p \in family : ~p.holds

\* The handler comes back: with the output of a child that ended; or with an error,
\* when the child could not be started or waited for, or was killed.
Succeeded == handler = "draining" /\ drained
Failed == handler \in {"ready", "polling"} \/ (handler = "killed" /\ drained)

\* What lives on then is no longer the handler's.
CommandOver == handler' = "ready" /\ child' = "ended" /\ late' = FALSE /\ family' = {}

CommandNext ==
  \/ DescendantStarts \/ DescendantChanges \/ DescendantEnds \/ ChildEnds \/ DeadlinePasses
  \/ Polls \/ Kills

Concludes == (Succeeded \/ Failed) /\ CommandOver

CommandSpec == CommandInit /\ [][Spawns \/ CommandNext \/ Concludes]_command_vars

-----------------------------------------------------------------------------
\* Nothing of a command that was stopped at its deadline runs on in its group, and
\* what keeps the handler from answering then has left the group with a pipe in
\* its hands (command.rs: run_with_timeout, kill_tree).
CommandContained ==
  handler = "killed" =>
    /\ late /\ child = "ended"
    /\ \A p \in family : p.left
    /\ ~drained => \E p \in family : p.left /\ p.holds
=============================================================================
