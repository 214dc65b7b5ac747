------------------------------- MODULE MCMachine -------------------------------
(***************************************************************************)
(* A machine that is set up, and two hook processes that share a state     *)
(* directory over two worlds.                                              *)
(***************************************************************************)
EXTENDS Machine, TLC

CONSTANTS h1, h2

F(p, a) == [projected |-> p, approval_required |-> a]
Text(write, read, caps) ==
  [flags |-> [write |-> write, read |-> read], caps |-> caps, compiles |-> TRUE]
Faulty(text) == [text EXCEPT !.compiles = FALSE]

\* A world with a scoped capability; the first and the stopped one with an error that
\* only the compiler finds; and no world at all.
MCFirst == Text(F(TRUE, FALSE), F(TRUE, FALSE), {})
MCEdits == {Broken, Text(F(TRUE, TRUE), F(TRUE, FALSE), {"write"}),
            Faulty(MCFirst), Faulty(Text(F(FALSE, FALSE), F(TRUE, FALSE), {}))}
MCChanges == {[write |-> "ask", read |-> "off"]}
Symmetric == Permutations(Hooks)

\* A settings document of one kind, with these PreToolUse entries.
Document(kind, entries) == [Missing EXCEPT !.kind = kind, !.hooks["PreToolUse"] = entries]
Foreign == Command("other", "now")

\* Somebody's own hook; ours for one tool, of an older form, beside another's or
\* without a matcher; and everything that cannot be merged.
MCDocuments ==
  {Missing} \cup {Document(kind, <<>>) : kind \in {"garbled", "odd", "unreadable"}}
  \cup {Document("valid", <<e>>) : e \in {Entry("*", <<Foreign>>), Entry("Bash", <<Command("project", "now")>>),
                                         Entry("*", <<Foreign, Command("user", "old")>>),
                                         Entry("", <<Command("project", "old")>>)}}
  \cup {[Document("valid", <<Entry("Bash", <<Foreign>>)>>) EXCEPT !.off = TRUE],
        [Document("valid", <<>>) EXCEPT !.link = TRUE]}
MCOriginal == {Missing, Document("valid", <<Entry("Bash", <<Foreign>>), Entry("Write", <<>>)>>)}
=============================================================================
