---------------------------- MODULE MCHookSession ----------------------------
(* Small instances of HookSession. *)
EXTENDS HookSession, TLC

\* A command, a page that is fetched, something sent out, an approved command.
Command == [counted |-> TRUE, ingests |-> FALSE, external |-> FALSE, consent |-> FALSE]
Fetch   == [counted |-> TRUE, ingests |-> TRUE, external |-> FALSE, consent |-> FALSE]
Send    == [counted |-> TRUE, ingests |-> FALSE, external |-> TRUE, consent |-> FALSE]
Danger  == [counted |-> TRUE, ingests |-> FALSE, external |-> FALSE, consent |-> TRUE]

CONSTANTS h1, h2

AllCalls == {Command, Fetch, Send, Danger}

AlikeHooks == Permutations(Hooks)
=============================================================================
